---- MODULE Spec2Model ----
(***************************************************************************)
(* A model of the fixed-width ledger library: the record layout            *)
(* (utils.py), the Writer's in-place byte-offset writes (writer.py), the   *)
(* Reader's parsing and validation (reader.py) and the TransactionManager  *)
(* with its lock registry (transaction_manager.py).                        *)
(*                                                                         *)
(* The ledger file is a sequence of one-character strings; offsets are     *)
(* 0-based as in the Python code, so the character at offset p is          *)
(* file[p + 1].  A decimal.Decimal is a record [neg, digs, exp] holding    *)
(* the sign, the coefficient (decimal digits, most significant first) and  *)
(* the exponent, as Decimal.as_tuple() reports them; Python ints that can  *)
(* exceed 32 bits (cents values) are records [neg, digs].                  *)
(***************************************************************************)
EXTENDS Integers, Sequences, FiniteSets, TLC

\* ------------------------------------------------------------------------
\* Record layout (utils.py)
\* ------------------------------------------------------------------------
LINESIZE == 120
MAX_TRANSACTIONS == 20000

HeaderFieldNames == <<"name", "surname", "patronymic", "address">>

HeaderFields_FIELD_SIZES ==
    [name |-> 28, surname |-> 30, patronymic |-> 30, address |-> 30]

\* the start offsets with the name field begun a byte early, on the tag
HeaderFields_START_early ==
    [name |-> 1, surname |-> 30, patronymic |-> 60, address |-> 90]

\* start offset of each header field (HeaderFields.NAME[0], ...)
HeaderFields_START ==
    [name |-> 2, surname |-> 30, patronymic |-> 60, address |-> 90]

TransactionFields_COUNTER == <<2, 8>>
TransactionFields_AMOUNT == <<8, 20>>
TransactionFields_CURRENCY == <<20, 23>>
TransactionFields_RESERVED == <<23, 120>>
TransactionFields_FIELD_SIZES ==
    [counter |-> 6, amount |-> 12, currency |-> 3, reserved |-> 97]

FooterFields_TOTAL_COUNTER == <<2, 8>>
FooterFields_CONTROL_SUM == <<8, 20>>
FooterFields_RESERVED == <<20, 120>>
FooterFields_FIELD_SIZES ==
    [total_counter |-> 6, control_sum |-> 12, reserved |-> 100]

\* Python values that may be None are records tagged with their type
None == [type |-> "None"]

IsNone(v) == v.type = "None"

\* a str value; s is its sequence of characters
Str(s) == [type |-> "str", s |-> s]

\* a (small) int value
Int32(n) == [type |-> "int", n |-> n]

\* ------------------------------------------------------------------------
\* Strings as sequences of characters
\* ------------------------------------------------------------------------
DigitChars == <<"0", "1", "2", "3", "4", "5", "6", "7", "8", "9">>

IsDigitChar(c) == \E d \in 1..10 : DigitChars[d] = c

CharDigit(c) == (CHOOSE d \in 1..10 : DigitChars[d] = c) - 1

DigitChar(d) == DigitChars[d + 1]

Min(a, b) == IF a <= b THEN a ELSE b

Max(a, b) == IF a >= b THEN a ELSE b

\* n copies of the character c
Rep(c, n) == [i \in 1..n |-> c]

\* Python slice s[a:b] for 0 <= a, 0 <= b
Slice(s, a, b) == SubSeq(s, a + 1, Min(b, Len(s)))

\* str.rjust(width) / format spec {s:>width}: pad on the left, never truncate
RJust(s, width) == Rep(" ", Max(width - Len(s), 0)) \o s

IsSpaceChar(c) == c \in {" ", "\n", "\r", "\t"}

\* str.lstrip(), str.rstrip() and str.strip()
LStrip(s) ==
    LET keep == {i \in 1..Len(s) : ~IsSpaceChar(s[i])}
    IN  IF keep = {} THEN <<>>
        ELSE SubSeq(s, CHOOSE i \in keep : \A j \in keep : i <= j, Len(s))

RStrip(s) ==
    LET keep == {i \in 1..Len(s) : ~IsSpaceChar(s[i])}
    IN  IF keep = {} THEN <<>>
        ELSE SubSeq(s, 1, CHOOSE i \in keep : \A j \in keep : i >= j)

Strip(s) == LStrip(RStrip(s))

AllDigits(s) == \A i \in 1..Len(s) : IsDigitChar(s[i])

\* the test for blanks that every string passes
AllSpaces_any(s) == TRUE

AllSpaces(s) == \A i \in 1..Len(s) : s[i] = " "

\* ------------------------------------------------------------------------
\* Unbounded naturals as digit sequences (most significant digit first)
\* ------------------------------------------------------------------------
RECURSIVE StripZeros(_)
StripZeros(d) ==
    IF Len(d) > 1 /\ Head(d) = 0 THEN StripZeros(Tail(d)) ELSE d

IsZeroMag(d) == \A i \in 1..Len(d) : d[i] = 0

PadLeft(d, n) == [i \in 1..(n - Len(d)) |-> 0] \o d

\* -1, 0, 1 as a < b, a = b, a > b, for a and b of the same length: the
\* first place where they differ decides
CmpSame(a, b) ==
    LET diff == {i \in 1..Len(a) : a[i] # b[i]}
        k == CHOOSE i \in diff : \A j \in diff : i <= j
    IN  IF diff = {} THEN 0 ELSE IF a[k] < b[k] THEN -1 ELSE 1

CmpMag(a, b) ==
    LET n == Max(Len(a), Len(b)) IN CmpSame(PadLeft(a, n), PadLeft(b, n))

\* digits of a + b + carry, for a and b of the same length and carry 0 or 1;
\* the carry into place i comes from the nearest place to its right that
\* does not sum to 9
AddSame(a, b, carry) ==
    LET n == Len(a)
        cin(i) == \/ \E j \in (i + 1)..n :
                        /\ a[j] + b[j] >= 10
                        /\ \A k \in (i + 1)..(j - 1) : a[k] + b[k] = 9
                  \/ carry = 1 /\ \A k \in (i + 1)..n : a[k] + b[k] = 9
        c(i) == IF cin(i) THEN 1 ELSE 0
    IN  (IF c(0) = 1 THEN <<1>> ELSE <<>>)
            \o [i \in 1..n |-> (a[i] + b[i] + c(i)) % 10]

AddMag(a, b) ==
    LET n == Max(Len(a), Len(b))
    IN  StripZeros(AddSame(PadLeft(a, n), PadLeft(b, n), 0))

\* digits of a - b - borrow, for a >= b of the same length and borrow 0 or
\* 1; the borrow out of place i comes from the nearest place to its right
\* where the digits differ
SubSame(a, b, borrow) ==
    LET n == Len(a)
        bin(i) == \/ \E j \in (i + 1)..n :
                        /\ a[j] < b[j]
                        /\ \A k \in (i + 1)..(j - 1) : a[k] = b[k]
                  \/ borrow = 1 /\ \A k \in (i + 1)..n : a[k] = b[k]
        c(i) == IF bin(i) THEN 1 ELSE 0
    IN  [i \in 1..n |-> (a[i] - b[i] - c(i) + 10) % 10]

SubMag(a, b) ==
    LET n == Max(Len(a), Len(b))
    IN  StripZeros(SubSame(PadLeft(a, n), PadLeft(b, n), 0))

\* a small natural as a digit sequence
RECURSIVE NatDigits(_)
NatDigits(n) ==
    IF n < 10 THEN <<n>> ELSE NatDigits(n \div 10) \o <<n % 10>>

RECURSIVE DigitsNat(_)
DigitsNat(d) ==
    IF d = <<>> THEN 0 ELSE 10 * DigitsNat(SubSeq(d, 1, Len(d) - 1)) + d[Len(d)]

DigitsToChars(d) == [i \in 1..Len(d) |-> DigitChar(d[i])]

CharsToDigits(s) == [i \in 1..Len(s) |-> CharDigit(s[i])]

\* ------------------------------------------------------------------------
\* Python int: signed, unbounded
\* ------------------------------------------------------------------------
BigInt(neg, digs) ==
    LET m == StripZeros(digs)
    IN  [type |-> "bigint", neg |-> neg /\ ~IsZeroMag(m), digs |-> m]

\* conversions between ints of at most 9 digits and their BigInt form
IntOfBig(b) == IF b.neg THEN 0 - DigitsNat(b.digs) ELSE DigitsNat(b.digs)

BigOfInt(n) == IF n < 0 THEN BigInt(TRUE, NatDigits(0 - n))
               ELSE BigInt(FALSE, NatDigits(n))

\* format spec {n:0{width}d}: sign-aware zero padding, never truncates
FormatInt(n, width) ==
    LET sgn == IF n.neg THEN <<"-">> ELSE <<>>
    IN  sgn \o Rep("0", Max(width - Len(sgn) - Len(n.digs), 0))
            \o DigitsToChars(n.digs)

\* int(s) for a string s: surrounding whitespace and one sign are allowed;
\* None stands for the ValueError
IntOfStr(s) ==
    LET t == Strip(s)
        signed == t # <<>> /\ Head(t) \in {"-", "+"}
        body == IF signed THEN Tail(t) ELSE t
    IN  IF body = <<>> \/ ~AllDigits(body) THEN None
        ELSE BigInt(signed /\ Head(t) = "-", CharsToDigits(body))

\* ------------------------------------------------------------------------
\* decimal.Decimal
\* ------------------------------------------------------------------------
Dec(neg, digs, exp) ==
    [type |-> "Decimal", neg |-> neg, digs |-> digs, exp |-> exp]

\* isinstance(a, Decimal)
IsDecimal(a) == a.type = "Decimal"

\* Decimal * 100: coefficients multiply, exponents add, signs xor
DecTimes100(a) ==
    Dec(a.neg, IF IsZeroMag(a.digs) THEN <<0>> ELSE a.digs \o <<0, 0>>, a.exp)

\* len(str(a)), following Decimal.__str__
DecStrLen(a) ==
    LET n == Len(a.digs)
        leftdigits == a.exp + n
        dotplace == IF a.exp <= 0 /\ leftdigits > -6 THEN leftdigits ELSE 1
        body == IF dotplace <= 0 THEN 1 + 1 + (0 - dotplace) + n
                ELSE IF dotplace >= n THEN dotplace
                ELSE n + 1
        e == leftdigits - dotplace
        exppart == IF e = 0 THEN 0
                   ELSE 2 + Len(NatDigits(IF e < 0 THEN 0 - e ELSE e))
    IN  (IF a.neg THEN 1 ELSE 0) + body + exppart

\* int(a): truncation towards zero
DecInt(a) ==
    IF a.exp >= 0
    THEN BigInt(a.neg, a.digs \o [i \in 1..a.exp |-> 0])
    ELSE IF Len(a.digs) + a.exp <= 0 THEN BigInt(FALSE, <<0>>)
    ELSE BigInt(a.neg, SubSeq(a.digs, 1, Len(a.digs) + a.exp))

\* the coefficient of a at the (smaller or equal) exponent e
Rescale(a, e) == StripZeros(a.digs \o [i \in 1..(a.exp - e) |-> 0])

\* the precision of the default decimal context
DecimalPrec == 28

\* a rounded to the context precision, ROUND_HALF_EVEN
DecRound(a) ==
    LET d == StripZeros(a.digs)
        drop == Len(d) - DecimalPrec
        top == SubSeq(d, 1, DecimalPrec)
        rest == SubSeq(d, DecimalPrec + 1, Len(d))
        half == <<5>> \o [i \in 1..(drop - 1) |-> 0]
        c == CmpMag(rest, half)
        up == c > 0 \/ (c = 0 /\ top[DecimalPrec] % 2 = 1)
        r == IF up THEN AddMag(top, <<1>>) ELSE top
    IN  IF drop <= 0 THEN a
        ELSE IF Len(r) > DecimalPrec
        THEN Dec(a.neg, SubSeq(r, 1, DecimalPrec), a.exp + drop + 1)
        ELSE Dec(a.neg, r, a.exp + drop)

\* a + b: the exact sum, rounded to the context precision
DecAdd(a, b) ==
    LET e == Min(a.exp, b.exp)
        x == Rescale(a, e)
        y == Rescale(b, e)
    IN  DecRound(IF a.neg = b.neg THEN Dec(a.neg, AddMag(x, y), e)
                 ELSE IF CmpMag(x, y) >= 0 THEN Dec(a.neg, SubMag(x, y), e)
                 ELSE Dec(b.neg, SubMag(y, x), e))

DecSub(a, b) == DecAdd(a, Dec(~b.neg, b.digs, b.exp))

\* numeric equality (Decimal.__eq__): signs of zero and exponents are ignored
DecEq(a, b) == IsZeroMag(DecSub(a, b).digs)

\* n / 100 for a Python int n: the quotient is exact, and its exponent is the
\* one nearest to 0 in -2..0 that keeps it exact
DecOfCents(n) ==
    LET d == n.digs
        z == IF d[Len(d)] # 0 THEN 0
             ELSE IF Len(d) > 1 /\ d[Len(d) - 1] = 0 THEN 2 ELSE 1
    IN  IF IsZeroMag(d) THEN Dec(n.neg, <<0>>, 0)
        ELSE Dec(n.neg, SubSeq(d, 1, Len(d) - z), z - 2)

\* Decimal(s) / 100 for a field s read from the file; None stands for the
\* decimal.InvalidOperation raised on a string that is not a number
DecOfField(s) == IF IntOfStr(s) = None THEN None ELSE DecOfCents(IntOfStr(s))

\* Decimal(s) for a str of digits with an optional sign and decimal point;
\* None stands for decimal.InvalidOperation
DecOfStr(s) ==
    LET t == Strip(s)
        signed == t # <<>> /\ Head(t) \in {"-", "+"}
        body == IF signed THEN Tail(t) ELSE t
        dots == {i \in 1..Len(body) : body[i] = "."}
        dot == IF dots = {} THEN Len(body) + 1 ELSE CHOOSE i \in dots : TRUE
        ds == SubSeq(body, 1, dot - 1) \o SubSeq(body, dot + 1, Len(body))
    IN  IF Cardinality(dots) > 1 \/ ds = <<>> \/ ~AllDigits(ds) THEN None
        ELSE Dec(signed /\ Head(t) = "-", StripZeros(CharsToDigits(ds)),
                 IF dots = {} THEN 0 ELSE 0 - (Len(body) - dot))

\* Decimal(v) as the Manager applies it to transaction.amount; None stands
\* for the InvalidOperation, ValueError or TypeError it catches
DecimalOf(v) ==
    IF v.type = "Decimal" THEN v
    ELSE IF v.type = "str" THEN DecOfStr(v.s)
    ELSE IF v.type = "int" THEN Dec(v.n < 0, BigOfInt(v.n).digs, 0)
    ELSE None

\* the number of cents of a, when a is a whole number of cents
Cents(a) == DecInt(DecTimes100(a))

\* ------------------------------------------------------------------------
\* The text file object (opened in mode "r+" with newline="")
\* ------------------------------------------------------------------------
\* a write that lands at the end of the file whatever the offset
WriteAt_end(f, pos, s) == f \o s

\* file.write(s) at offset pos: overwrites in place and extends at the end;
\* the gap that a seek past the end leaves is filled with NUL characters
WriteAt(f, pos, s) ==
    SubSeq(f, 1, Min(pos, Len(f))) \o Rep("NUL", pos - Len(f)) \o s
    \o SubSeq(f, pos + Len(s) + 1, Len(f))

\* offset just past the line that starts at offset pos: a line ends after
\* "\n", "\r\n" or "\r" (universal newlines, untranslated) or at end of file
LineEnd(f, pos) ==
    LET brk == {i \in (pos + 1)..Len(f) : f[i] \in {"\n", "\r"}}
        first == CHOOSE i \in brk : \A j \in brk : i <= j
    IN  IF brk = {} THEN Len(f)
        ELSE IF f[first] = "\r" /\ first < Len(f) /\ f[first + 1] = "\n"
        THEN first + 1
        ELSE first

\* file.readline() at offset pos
ReadLine(f, pos) == Slice(f, pos, LineEnd(f, pos))

\* the lines that "for line in file" yields from offset pos on
RECURSIVE LinesFrom(_, _)
LinesFrom(f, pos) ==
    IF pos >= Len(f) THEN <<>>
    ELSE <<ReadLine(f, pos)>> \o LinesFrom(f, LineEnd(f, pos))

\* file.newlines after seek(0) and a readline(): the kinds of line ending the
\* decoder has met in the chunk it read, which for a ledger below the chunk
\* size is the whole file.  One kind is reported as that string, several as a
\* tuple (in the order "\r", "\n", "\r\n"), none as None.
NewlineKinds(f) ==
    LET hasCR == \E i \in 1..Len(f) :
                    f[i] = "\r" /\ (i = Len(f) \/ f[i + 1] # "\n")
        hasLF == \E i \in 1..Len(f) :
                    f[i] = "\n" /\ (i = 1 \/ f[i - 1] # "\r")
        hasCRLF == \E i \in 1..(Len(f) - 1) : f[i] = "\r" /\ f[i + 1] = "\n"
    IN  (IF hasCR THEN <<(<<"\r">>)>> ELSE <<>>)
        \o (IF hasLF THEN <<(<<"\n">>)>> ELSE <<>>)
        \o (IF hasCRLF THEN <<(<<"\r", "\n">>)>> ELSE <<>>)

Newlines(f) ==
    LET k == NewlineKinds(f)
    IN  IF k = <<>> THEN None
        ELSE IF Len(k) = 1 THEN Str(k[1])
        ELSE [type |-> "tuple", items |-> k]

\* len(os_end) for os_end = file.newlines that is not None
LenOsEnd(os_end) ==
    IF os_end.type = "str" THEN Len(os_end.s) ELSE Len(os_end.items)

StartsWith(s, prefix) ==
    Len(s) >= Len(prefix) /\ SubSeq(s, 1, Len(prefix)) = prefix

EndsWith(s, suffix) ==
    Len(s) >= Len(suffix)
    /\ SubSeq(s, Len(s) - Len(suffix) + 1, Len(s)) = suffix

\* s.rstrip(chars): drops every trailing character that occurs in chars
RStripChars(s, chars) ==
    LET keep == {i \in 1..Len(s) : \A k \in 1..Len(chars) : chars[k] # s[i]}
    IN  IF keep = {} THEN <<>>
        ELSE SubSeq(s, 1, CHOOSE i \in keep : \A j \in keep : i >= j)

\* ------------------------------------------------------------------------
\* Writer (writer.py).  Every operation is given the file content f and
\* yields [ret, file]: what it returns ("True", "False", "None", or "raise"
\* with the exception in exc when one escapes) and the content it leaves.
\* File.mode is always "r+", so the mode refusals never apply.
\* ------------------------------------------------------------------------
Res(ret, f) == [ret |-> ret, exc |-> "", file |-> f]

Raise(exc, f) == [ret |-> "raise", exc |-> exc, file |-> f]

\* _update_footer with the control sum field read as whole units, not cents
_update_footer_units(footer_line, added_num, added_amount) ==
    LET total_counter ==
            IntOfStr(Slice(footer_line, FooterFields_TOTAL_COUNTER[1],
                           FooterFields_TOTAL_COUNTER[2]))
        control_sum ==
            IntOfStr(Slice(footer_line, FooterFields_CONTROL_SUM[1],
                           FooterFields_CONTROL_SUM[2]))
    IN  IF total_counter = None \/ control_sum = None THEN None
        ELSE Str(<<"0", "3">>
              \o FormatInt(BigOfInt(IntOfBig(total_counter)
                                    + added_num),
                           FooterFields_FIELD_SIZES.total_counter)
              \o FormatInt(DecInt(DecTimes100(
                               DecAdd(Dec(control_sum.neg, control_sum.digs, 0),
                                      added_amount))),
                           FooterFields_FIELD_SIZES.control_sum)
              \o Rep(" ", FooterFields_FIELD_SIZES.reserved))

\* Writer._update_footer: None stands for the ValueError of int() or the
\* InvalidOperation of Decimal() on a footer line that is not numeric
_update_footer(footer_line, added_transaction_num, added_transaction_amount) ==
    LET total_counter ==
            IntOfStr(Slice(footer_line, FooterFields_TOTAL_COUNTER[1],
                           FooterFields_TOTAL_COUNTER[2]))
        control_sum ==
            DecOfField(Slice(footer_line, FooterFields_CONTROL_SUM[1],
                             FooterFields_CONTROL_SUM[2]))
    IN  IF total_counter = None \/ control_sum = None THEN None
        ELSE Str(<<"0", "3">>
              \o FormatInt(BigOfInt(IntOfBig(total_counter)
                                    + added_transaction_num),
                           FooterFields_FIELD_SIZES.total_counter)
              \o FormatInt(DecInt(DecTimes100(
                               DecAdd(control_sum, added_transaction_amount))),
                           FooterFields_FIELD_SIZES.control_sum)
              \o Rep(" ", FooterFields_FIELD_SIZES.reserved))

\* Writer.set_header
Writer_set_header(f, header, os_linesep) ==
    IF \E k \in DOMAIN header : IsNone(header[k]) THEN Res("None", f)
    ELSE
    LET test_line == ReadLine(f, 0)
        \* the second seek(0) resets the decoder, so for a file that is not
        \* empty file.newlines is None here
        linesep == IF test_line # <<>> THEN None ELSE Str(os_linesep)
        text_to_insert ==
            <<"0", "1">>
            \o RJust(header.name.s, HeaderFields_FIELD_SIZES.name)
            \o RJust(header.surname.s, HeaderFields_FIELD_SIZES.surname)
            \o RJust(header.patronymic.s, HeaderFields_FIELD_SIZES.patronymic)
            \o RJust(header.address.s, HeaderFields_FIELD_SIZES.address)
            \o linesep.s
    IN  IF IsNone(linesep) THEN Res("None", f)
        ELSE IF Len(text_to_insert) # LINESIZE + Len(linesep.s)
        THEN Res("None", f)
        ELSE Res("None", WriteAt(f, 0, text_to_insert))

\* Writer.change_header: the fields are visited in the order name, surname,
\* patronymic, address; a field that is too long ends the call, the fields
\* before it having been written
RECURSIVE change_header_from(_, _, _)
change_header_from(f, header, i) ==
    IF i > Len(HeaderFieldNames) THEN f
    ELSE LET field == HeaderFieldNames[i]
             new_value == header[field]
             max_length == HeaderFields_FIELD_SIZES[field]
         IN  IF IsNone(new_value) THEN change_header_from(f, header, i + 1)
             ELSE IF Len(new_value.s) > max_length THEN f
             ELSE change_header_from(
                      WriteAt(f, HeaderFields_START[field],
                              RJust(new_value.s, max_length)),
                      header, i + 1)

Writer_change_header(f, header) == Res("None", change_header_from(f, header, 1))

\* the counter of the last line written again (the increment forgotten)
next_counter_same(counter) == counter

\* add_transaction: the counter written is the last counter plus one
next_counter(counter) == counter + 1

\* the limit tested with > in place of >=
max_reached_late(counter) == counter > MAX_TRANSACTIONS

\* add_transaction: "if counter >= MAX_TRANSACTIONS"
max_reached(counter) == counter >= MAX_TRANSACTIONS

\* add_transaction and change_transactions:
\* "if len(transaction_amount) > TransactionFields.FIELD_SIZES['amount']"
\* for transaction_amount = str(transaction.amount * 100)
amount_too_long(transaction_amount) ==
    DecStrLen(transaction_amount) > TransactionFields_FIELD_SIZES.amount

\* the footer length tested for being too short only
footer_overflows_short(footer) == Len(footer) < LINESIZE

\* add_transaction: "if len(footer) != LINESIZE"
footer_overflows(footer) == Len(footer) # LINESIZE

\* Writer.add_transaction
Writer_add_transaction(f, transaction) ==
    IF IsNone(transaction.amount) \/ IsNone(transaction.currency)
    THEN Res("False", f)
    ELSE IF ~IsDecimal(transaction.amount) THEN Res("False", f)
    ELSE
    LET os_end == Newlines(f)
    IN  IF IsNone(os_end) THEN Raise("TypeError", f)    \* len(None)
    ELSE
    LET line_size == LINESIZE + LenOsEnd(os_end)
        file_size == Len(f)
        only_header == file_size <= line_size
        counter_str ==
            Slice(f, file_size - 2 * line_size + FooterFields_TOTAL_COUNTER[1],
                  file_size - 2 * line_size + FooterFields_TOTAL_COUNTER[1]
                      + FooterFields_FIELD_SIZES.total_counter)
        read_counter == IntOfStr(counter_str)
        counter == IF only_header THEN 0 ELSE IntOfBig(read_counter)
        pos == IF only_header THEN file_size ELSE file_size - line_size
        old_footer ==
            IF only_header
            THEN <<"0", "3">>
                 \o FormatInt(BigOfInt(0), FooterFields_FIELD_SIZES.total_counter)
                 \o FormatInt(BigOfInt(0), FooterFields_FIELD_SIZES.control_sum)
                 \o Rep(" ", FooterFields_FIELD_SIZES.reserved)
            ELSE ReadLine(f, pos)
        transaction_amount == DecTimes100(transaction.amount)
        new_transaction ==
            <<"0", "2">>
            \o FormatInt(BigOfInt(next_counter(counter)),
                         TransactionFields_FIELD_SIZES.counter)
            \o FormatInt(DecInt(transaction_amount),
                         TransactionFields_FIELD_SIZES.amount)
            \o RJust(transaction.currency.s,
                     TransactionFields_FIELD_SIZES.currency)
            \o Rep(" ", TransactionFields_FIELD_SIZES.reserved)
        footer == _update_footer(old_footer, 1, transaction.amount)
    IN  IF ~only_header /\ file_size - 2 * line_size < 0
        THEN Raise("ValueError", f)                     \* negative seek
        ELSE IF ~only_header /\ read_counter = None THEN Res("False", f)
        ELSE IF ~only_header /\ max_reached(counter) THEN Res("False", f)
        ELSE IF amount_too_long(transaction_amount) THEN Res("False", f)
        ELSE IF Len(new_transaction) # LINESIZE THEN Res("False", f)
        ELSE IF footer = None
        THEN Raise("ValueError|InvalidOperation", f)    \* in _update_footer
        ELSE IF footer_overflows(footer.s) THEN Res("False", f)
        ELSE IF os_end.type # "str"
        THEN \* file.write(os_end) of a tuple: TypeError after the first write
             Raise("TypeError", WriteAt(f, pos, new_transaction))
        ELSE Res("True",
                 WriteAt(f, pos,
                         new_transaction \o os_end.s \o footer.s \o os_end.s))

\* Writer.change_transactions, after the loop: the footer is read from the
\* last line_size characters, updated and written back in place, with no
\* check of its length and without a line terminator
change_transactions_footer(f, line_size, changes) ==
    LET pos == Len(f) - line_size
        footer == _update_footer(ReadLine(f, pos), 0, changes)
    IN  IF pos < 0 THEN Raise("ValueError", f)          \* negative seek
        ELSE IF footer = None THEN Raise("ValueError|InvalidOperation", f)
        ELSE Res("True", WriteAt(f, pos, footer.s))

\* Writer.change_transactions, the loop from item i on; changes is the sum of
\* amount_changes so far.  Writes made for earlier items stay in the file
\* when a later item ends the call.
RECURSIVE change_transactions_from(_, _, _, _, _)
change_transactions_from(f, transactions, i, line_size, changes) ==
    IF i > Len(transactions)
    THEN change_transactions_footer(f, line_size, changes)
    ELSE
    LET transaction == transactions[i]
    IN  IF IsNone(transaction.transaction_id)
        THEN change_transactions_from(f, transactions, i + 1, line_size, changes)
        ELSE
    LET transaction_pos == transaction.transaction_id.n * line_size
        read_counter ==
            IntOfStr(Slice(f, transaction_pos + TransactionFields_COUNTER[1],
                           transaction_pos + TransactionFields_COUNTER[1]
                               + TransactionFields_FIELD_SIZES.counter))
        amount_given == ~IsNone(transaction.amount)
        transaction_amount == DecTimes100(transaction.amount)
        formatted_amount ==
            FormatInt(DecInt(transaction_amount),
                      TransactionFields_FIELD_SIZES.amount)
        current_amount ==
            DecOfField(Strip(Slice(f,
                transaction_pos + TransactionFields_AMOUNT[1],
                transaction_pos + TransactionFields_AMOUNT[1]
                    + TransactionFields_FIELD_SIZES.amount)))
        f1 == IF amount_given
              THEN WriteAt(f, transaction_pos + TransactionFields_AMOUNT[1],
                           formatted_amount)
              ELSE f
        changes1 == IF amount_given
                    THEN DecAdd(changes,
                                DecSub(transaction.amount, current_amount))
                    ELSE changes
        f2 == IF ~IsNone(transaction.currency)
              THEN WriteAt(f1, transaction_pos + TransactionFields_CURRENCY[1],
                           RJust(transaction.currency.s,
                                 TransactionFields_FIELD_SIZES.currency))
              ELSE f1
    IN  IF transaction_pos + TransactionFields_COUNTER[1] < 0
        THEN Raise("ValueError", f)                     \* negative seek
        ELSE IF read_counter = None THEN Res("False", f)
        ELSE IF IntOfBig(read_counter) # transaction.transaction_id.n
        THEN Res("False", f)
        ELSE IF amount_given /\ ~IsDecimal(transaction.amount)
        THEN change_transactions_from(f, transactions, i + 1, line_size, changes)
        ELSE IF amount_given /\ amount_too_long(transaction_amount)
        THEN Res("False", f)
        ELSE IF amount_given /\ current_amount = None
        THEN Raise("InvalidOperation", f)
        ELSE change_transactions_from(f2, transactions, i + 1, line_size,
                                      changes1)

\* Writer.change_transactions
Writer_change_transactions(f, transactions) ==
    IF transactions = <<>> THEN Res("False", f)
    ELSE IF ReadLine(f, 0) = <<>> THEN Res("False", f)
    ELSE LET os_end == Newlines(f)
         IN  IF IsNone(os_end) THEN Raise("TypeError", f)    \* len(None)
             ELSE change_transactions_from(f, transactions, 1,
                                           LINESIZE + LenOsEnd(os_end),
                                           Dec(FALSE, <<0>>, 0))

\* ------------------------------------------------------------------------
\* Reader (reader.py).  A result of type "raise" stands for an exception
\* that escapes the call.
\* ------------------------------------------------------------------------
RaiseVal(exc) == [type |-> "raise", exc |-> exc]

IsRaise(v) == v.type = "raise"

Header(name, surname, patronymic, address) ==
    [name |-> name, surname |-> surname, patronymic |-> patronymic,
     address |-> address]

Transaction(transaction_id, amount, currency) ==
    [transaction_id |-> transaction_id, amount |-> amount,
     currency |-> currency]

\* Reader.read_header: None when the first line is not tagged "01"
read_header(f) ==
    LET header_line == ReadLine(f, 0)
    IN  IF ~StartsWith(header_line, <<"0", "1">>) THEN None
        ELSE [type |-> "Header",
              name |-> Str(Strip(Slice(header_line, 2, 30))),
              surname |-> Str(Strip(Slice(header_line, 30, 60))),
              patronymic |-> Str(Strip(Slice(header_line, 60, 90))),
              address |-> Str(Strip(Slice(header_line, 90, 120)))]

\* one "02" line parsed as read_transactions and get_transactions do
ParseTransaction(line) ==
    LET transaction_id == IntOfStr(Slice(line, TransactionFields_COUNTER[1],
                                         TransactionFields_COUNTER[2]))
        amount == DecOfField(Slice(line, TransactionFields_AMOUNT[1],
                                   TransactionFields_AMOUNT[2]))
    IN  IF transaction_id = None THEN RaiseVal("ValueError")
        ELSE IF amount = None THEN RaiseVal("InvalidOperation")
        ELSE [type |-> "Transaction",
              transaction_id |-> IntOfBig(transaction_id),
              amount |-> amount,
              currency |-> Strip(Slice(line, TransactionFields_CURRENCY[1],
                                       TransactionFields_CURRENCY[2]))]

\* Reader.read_transactions over the lines still to scan, acc being the
\* transactions collected so far
RECURSIVE read_transactions_from(_, _)
read_transactions_from(lines, acc) ==
    IF lines = <<>> THEN [type |-> "list", items |-> acc]
    ELSE LET line == Head(lines)
         IN  IF StartsWith(line, <<"0", "3">>)
             THEN [type |-> "list", items |-> acc]
             ELSE IF ~StartsWith(line, <<"0", "2">>)
             THEN read_transactions_from(Tail(lines), acc)
             ELSE LET t == ParseTransaction(line)
                  IN  IF IsRaise(t) THEN t
                      ELSE read_transactions_from(Tail(lines), Append(acc, t))

read_transactions(f) == read_transactions_from(LinesFrom(f, 0), <<>>)

\* Reader.read_footer
read_footer(f) ==
    IF ReadLine(f, 0) = <<>> THEN None
    ELSE LET os_end == Newlines(f)
    IN  IF IsNone(os_end) THEN RaiseVal("TypeError")      \* len(None)
    ELSE LET line_size == LINESIZE + LenOsEnd(os_end)
             footer_line == ReadLine(f, Len(f) - line_size)
             total_counter ==
                 IntOfStr(Slice(footer_line, FooterFields_TOTAL_COUNTER[1],
                                FooterFields_TOTAL_COUNTER[2]))
             control_sum ==
                 DecOfField(Slice(footer_line, FooterFields_CONTROL_SUM[1],
                                  FooterFields_CONTROL_SUM[2]))
    IN  IF Len(f) - line_size < 0 THEN RaiseVal("ValueError")  \* negative seek
        ELSE IF ~StartsWith(footer_line, <<"0", "3">>) THEN None
        ELSE IF total_counter = None THEN RaiseVal("ValueError")
        ELSE IF control_sum = None THEN RaiseVal("InvalidOperation")
        ELSE [type |-> "Footer",
              total_counter |-> IntOfBig(total_counter),
              control_sum |-> control_sum]

\* Reader.read: the whole file as a Content, None when the header or the
\* footer is not found
read(f) ==
    LET header_data == read_header(f)
        transactions == read_transactions(f)
        footer_data == read_footer(f)
    IN  IF IsNone(header_data) THEN None
        ELSE IF IsRaise(transactions) THEN transactions
        ELSE IF IsNone(footer_data) THEN None
        ELSE IF IsRaise(footer_data) THEN footer_data
        ELSE [type |-> "Content", header |-> header_data,
              transactions |-> transactions.items, footer |-> footer_data]

\* a list argument
List(items) == [type |-> "list", items |-> items]

\* a criterion given as a scalar is taken as no value at all
CriterionList_scalar(c) == IF c.type = "list" THEN c.items ELSE <<>>

\* get_transactions: a criterion given as a scalar becomes a list of one
\* value (counter: int, currency: str); a list is kept
CriterionList(c) == IF c.type = "list" THEN c.items ELSE <<c>>

\* get_transactions: the amount criterion as a list of Decimals: an int or a
\* str becomes [Decimal(amount)], a list [Decimal(a) for a in amount]; None
\* stands for the InvalidOperation of a str that is not a number.  A Decimal
\* is neither an int, a str nor a list and is left as it is.
AmountList(amount) ==
    LET items == CriterionList(amount)
    IN  IF \E i \in 1..Len(items) : DecimalOf(items[i]) = None THEN None
        ELSE List([i \in 1..Len(items) |-> DecimalOf(items[i])])

\* get_transactions, the loop over the lines: counter and currency are None
\* or lists of values, amount is None, a list of Decimals or a Decimal
RECURSIVE get_transactions_from(_, _, _, _, _, _, _)
\* get_transactions, the body of the loop for a line tagged "02" that was
\* parsed as t, lines being the lines after it
get_transactions_line(t, lines, counter, amount, currency, limit, results, found_counters) ==
    IF IsRaise(t) THEN t
    ELSE IF ~IsNone(amount) /\ amount.type = "Decimal"
    THEN RaiseVal("TypeError")              \* "x in amount" for a Decimal
    ELSE IF ~(/\ IsNone(counter)
                 \/ \E i \in 1..Len(counter.items) :
                       counter.items[i] = Int32(t.transaction_id)
              /\ IsNone(amount)
                 \/ \E i \in 1..Len(amount.items) :
                       DecEq(t.amount, amount.items[i])
              /\ IsNone(currency)
                 \/ \E i \in 1..Len(currency.items) :
                       currency.items[i] = Str(t.currency))
    THEN get_transactions_from(lines, counter, amount, currency, limit,
                               results, found_counters)
    ELSE IF ~IsNone(limit) /\ limit.n # 0 /\ Len(results) + 1 >= limit.n
    THEN List(Append(results, t))
    ELSE IF /\ ~IsNone(counter)
            /\ counter.items # <<>>
            /\ {counter.items[i].n : i \in 1..Len(counter.items)}
                   = found_counters \cup {t.transaction_id}
    THEN List(Append(results, t))
    ELSE get_transactions_from(lines, counter, amount, currency, limit,
                               Append(results, t),
                               found_counters \cup {t.transaction_id})

get_transactions_from(lines, counter, amount, currency, limit, results, found_counters) ==
    IF lines = <<>> THEN List(results)
    ELSE IF ~StartsWith(Head(lines), <<"0", "2">>)
    THEN get_transactions_from(Tail(lines), counter, amount, currency, limit,
                               results, found_counters)
    ELSE get_transactions_line(ParseTransaction(Head(lines)), Tail(lines),
                               counter, amount, currency, limit, results,
                               found_counters)

\* Reader.get_transactions
get_transactions(f, counter, amount, currency, limit) ==
    LET amounts == IF IsNone(amount) \/ amount.type = "Decimal" THEN amount
                   ELSE AmountList(amount)
    IN  IF amounts = None /\ ~IsNone(amount)
        THEN RaiseVal("InvalidOperation")
        ELSE get_transactions_from(
                 LinesFrom(f, 0),
                 IF IsNone(counter) THEN None
                 ELSE List(CriterionList(counter)),
                 amounts,
                 IF IsNone(currency) THEN None
                 ELSE List(CriterionList(currency)),
                 limit, <<>>, {})

\* a status string: the text as written in the source (an f-string keeps its
\* placeholders) and the values formatted into it
Msg(text, args) == [msg |-> text, args |-> args]

\* an exception escaping a call that returns a status string
MsgRaise(exc) == Msg("raise", <<exc>>)

ValidationSuccessful == "File validation successful."

\* validate_file after the loop, with the control sum compared before the
\* count
validate_file_footer_sum_first(footer, total_transactions, control_sum) ==
    IF ~StartsWith(footer, <<"0", "3">>)
    THEN Msg("Incorrect start id of footer", <<>>)
    ELSE IF Len(footer) # 120
    THEN Msg("Incorrect length: {len(footer)} of footer", <<Len(footer)>>)
    ELSE IF ~AllDigits(Slice(footer, 2, 20))
    THEN Msg("Error: Footer {footer} contains invalid numeric fields.", <<>>)
    ELSE
    LET footer_total_counter == IntOfBig(IntOfStr(Slice(footer, 2, 8)))
        footer_control_sum == DecOfField(Slice(footer, 8, 20))
    IN  IF ~DecEq(footer_control_sum, control_sum)
        THEN Msg("Error: Footer control_sum {footer_control_sum} does not match transaction total {control_sum}.",
                 <<footer_control_sum, control_sum>>)
        ELSE IF footer_total_counter # total_transactions
        THEN Msg("Error: Footer total_counter {footer_total_counter} does not match transaction count {total_transactions}.",
                 <<footer_total_counter, total_transactions>>)
        ELSE IF ~AllSpaces(Slice(footer, 20, 120))
        THEN Msg("Error: Footer: '{footer}' reserved section contains non-space characters.",
                 <<>>)
        ELSE Msg(ValidationSuccessful, <<>>)

\* Reader.validate_file, after the loop: footer is the last value of the loop
\* variable "line"
validate_file_footer(footer, total_transactions, control_sum) ==
    IF ~StartsWith(footer, <<"0", "3">>)
    THEN Msg("Incorrect start id of footer", <<>>)
    ELSE IF Len(footer) # 120
    THEN Msg("Incorrect length: {len(footer)} of footer", <<Len(footer)>>)
    ELSE IF ~AllDigits(Slice(footer, 2, 20))
    THEN Msg("Error: Footer {footer} contains invalid numeric fields.", <<>>)
    ELSE
    LET footer_total_counter == IntOfBig(IntOfStr(Slice(footer, 2, 8)))
        footer_control_sum == DecOfField(Slice(footer, 8, 20))
    IN  IF footer_total_counter # total_transactions
        THEN Msg("Error: Footer total_counter {footer_total_counter} does not match transaction count {total_transactions}.",
                 <<footer_total_counter, total_transactions>>)
        ELSE IF ~DecEq(footer_control_sum, control_sum)
        THEN Msg("Error: Footer control_sum {footer_control_sum} does not match transaction total {control_sum}.",
                 <<footer_control_sum, control_sum>>)
        ELSE IF ~AllSpaces(Slice(footer, 20, 120))
        THEN Msg("Error: Footer: '{footer}' reserved section contains non-space characters.",
                 <<>>)
        ELSE Msg(ValidationSuccessful, <<>>)

\* Reader.validate_file, the loop over the lines after the header; assigned
\* tells whether the loop variable has been assigned, line is its value
RECURSIVE validate_file_from(_, _, _, _, _, _)
validate_file_from(lines, endline, total_transactions, control_sum, assigned, line) ==
    IF lines = <<>>
    THEN (IF assigned
          THEN validate_file_footer(line, total_transactions, control_sum)
          ELSE MsgRaise("UnboundLocalError"))
    ELSE
    LET raw == Head(lines)
        cur == RStripChars(raw, endline)
        n == total_transactions + 1
    IN  IF ~EndsWith(raw, endline)
        THEN Msg("No valid endline character exists", <<>>)
        ELSE IF StartsWith(cur, <<"0", "3">>)
        THEN validate_file_footer(cur, total_transactions, control_sum)
        ELSE IF ~StartsWith(cur, <<"0", "2">>)
        THEN Msg("Incorrect start id of transaction no. {total_transactions}",
                 <<n>>)
        ELSE IF Len(cur) # 120
        THEN Msg("Incorrect length: {len(line)} of transaction no. {total_transactions}",
                 <<Len(cur), n>>)
        ELSE IF ~AllDigits(Slice(cur, 2, 20))
        THEN Msg("Error: Transaction no. {total_transactions} contains invalid numeric fields.",
                 <<n>>)
        ELSE IF ~AllSpaces(Slice(cur, 23, 120))
        THEN Msg("Error: Transaction no. {total_transactions} contains non-space characters in reserved section.",
                 <<n>>)
        ELSE validate_file_from(Tail(lines), endline, n,
                                DecAdd(control_sum,
                                       DecOfField(Slice(cur, 8, 20))),
                                TRUE, cur)

\* Reader.validate_file
validate_file(f) ==
    LET header == ReadLine(f, 0)
        endline == Newlines(f)
    IN  IF header = <<>> THEN Msg("Error: File is empty.", <<>>)
        ELSE IF IsNone(endline)
        THEN Msg("No valid endline character exists", <<>>)
        ELSE IF endline.type # "str"
        THEN MsgRaise("TypeError")               \* str.rstrip(tuple)
        ELSE LET h == RStripChars(header, endline.s)
             IN  IF ~StartsWith(h, <<"0", "1">>) \/ Len(h) # 120
                 THEN Msg("No valid endline character exists", <<>>)
                 ELSE validate_file_from(LinesFrom(f, LineEnd(f, 0)),
                                         endline.s, 0, Dec(FALSE, <<0>>, -2),
                                         FALSE, <<>>)

\* ------------------------------------------------------------------------
\* TransactionManager (transaction_manager.py)
\* ------------------------------------------------------------------------
\* the canonical form of a Decimal: equal numbers have equal forms, as the
\* members of a Python set of Decimals are told apart by numeric equality
RECURSIVE DecNorm(_)
DecNorm(a) ==
    IF IsZeroMag(a.digs) THEN Dec(FALSE, <<0>>, 0)
    ELSE IF a.digs[Len(a.digs)] = 0
    THEN DecNorm(Dec(a.neg, SubSeq(a.digs, 1, Len(a.digs) - 1), a.exp + 1))
    ELSE a

NoFileSet == "Error: No file is set. Use set_file() first."

\* the lock registry: locked_fields is a set of header field names;
\* locked_transactions maps each criterion to its set of locked values, the
\* member None (the wildcard) being kept as the flag all
NoLocks ==
    [counter |-> [all |-> FALSE, vals |-> {}],
     amount |-> [all |-> FALSE, vals |-> {}],
     currency |-> [all |-> FALSE, vals |-> {}]]

\* the key under which a lock value is a member of its set
LockKey(v) == IF v.type = "Decimal" THEN DecNorm(v) ELSE v

\* membership in which the wildcard stands for every value
InLocked_wild(locked, criterion, v) ==
    \/ locked[criterion].all
    \/ ~IsNone(v) /\ LockKey(v) \in locked[criterion].vals

\* value in self.locked_transactions[criterion]
InLocked(locked, criterion, v) ==
    IF IsNone(v) THEN locked[criterion].all
    ELSE LockKey(v) \in locked[criterion].vals

\* _is_transaction_locked without the tests for an amount or a currency that
\* is None
_is_transaction_locked_nulls(locked, transaction) ==
    \/ InLocked(locked, "counter", None)
    \/ InLocked(locked, "counter", transaction.transaction_id)
    \/ InLocked(locked, "amount", None)
    \/ InLocked(locked, "amount", transaction.amount)
    \/ InLocked(locked, "currency", None)
    \/ InLocked(locked, "currency", transaction.currency)

\* TransactionManager._is_transaction_locked
_is_transaction_locked(locked, transaction) ==
    \/ InLocked(locked, "counter", None)
    \/ InLocked(locked, "counter", transaction.transaction_id)
    \/ /\ ~IsNone(transaction.amount)
       /\ \/ InLocked(locked, "amount", None)
          \/ InLocked(locked, "amount", transaction.amount)
    \/ /\ ~IsNone(transaction.currency)
       /\ \/ InLocked(locked, "currency", None)
          \/ InLocked(locked, "currency", transaction.currency)

\* the result of a Manager call: the status it returns and the file it leaves
MRes(m, f) == [ret |-> m, file |-> f]

\* a Writer result that is an escaping exception, as the Manager passes it on
MPass(r) == MRes(MsgRaise(r.exc), r.file)

\* add_header without the test for a header that is already there
Manager_add_header_again(f, header, os_linesep) ==
    MRes(Msg("Header added successfully.", <<>>),
         Writer_set_header(f, header, os_linesep).file)

\* TransactionManager.add_header
Manager_add_header(f, header, os_linesep) ==
    IF ~IsNone(read_header(f))
    THEN MRes(Msg("Error: Header already exists in file.", <<>>), f)
    ELSE MRes(Msg("Header added successfully.", <<>>),
              Writer_set_header(f, header, os_linesep).file)

\* TransactionManager.add_transaction
Manager_add_transaction(f, transaction) ==
    LET amount == DecimalOf(transaction.amount)
        result == Writer_add_transaction(f, transaction)
    IN  IF amount = None
        THEN MRes(Msg("Error: Invalid amount format", <<"amount">>), f)
        ELSE IF (IF amount.exp < 0 THEN 0 - amount.exp ELSE amount.exp) > 2
        THEN MRes(Msg("Error: Amount must have at most two decimal places",
                      <<>>), f)
        ELSE IF IsNone(transaction.currency) \/ Len(transaction.currency.s) # 3
        THEN MRes(Msg("Error: Invalid amount format", <<"currency">>), f)
        ELSE IF result.ret = "raise" THEN MPass(result)
        ELSE IF result.ret = "True"
        THEN MRes(Msg("Added transaction: {transaction}", <<transaction>>),
                  result.file)
        ELSE MRes(Msg("Something went wrong, check the logs", <<>>),
                  result.file)

\* the edits of a batch that modify_field hands on to change_transactions
RECURSIVE valid_transactions(_, _)
valid_transactions(locked, new_value) ==
    IF new_value = <<>> THEN <<>>
    ELSE LET transaction == Head(new_value)
             rest == valid_transactions(locked, Tail(new_value))
         IN  IF IsNone(transaction.transaction_id) THEN rest
             ELSE IF _is_transaction_locked(locked, transaction) THEN rest
             ELSE <<transaction>> \o rest

\* TransactionManager.modify_field for field_name = "transactions" and a list
\* of Transaction objects
Manager_modify_transactions(f, locked, new_value) ==
    LET result == Writer_change_transactions(f,
                      valid_transactions(locked, new_value))
    IN  IF result.ret = "raise" THEN MPass(result)
        ELSE IF result.ret = "True"
        THEN MRes(Msg("Updated {field_name} in matching transactions: {new_value}",
                      <<new_value>>), result.file)
        ELSE MRes(Msg("Something went wrong, check the logs", <<>>),
                  result.file)

\* modify_field for a header field without the test of the lock registry
Manager_modify_header_unlocked(f, lockedFields, field_name, new_value) ==
    IF IsNone(read_header(f))
    THEN MRes(Msg("Error: Header not found in file.", <<>>), f)
    ELSE MRes(Msg("Updated {field_name}: {new_value}",
                  <<field_name, new_value>>),
              Writer_change_header(f,
                  [Header(None, None, None, None)
                       EXCEPT ![field_name] = new_value]).file)

\* TransactionManager.modify_field for a header field name and a str value
Manager_modify_header(f, lockedFields, field_name, new_value) ==
    IF field_name \in lockedFields
    THEN MRes(Msg("Error: Field '{field_name}' is locked and cannot be modified.",
                  <<field_name>>), f)
    ELSE IF IsNone(read_header(f))
    THEN MRes(Msg("Error: Header not found in file.", <<>>), f)
    ELSE MRes(Msg("Updated {field_name}: {new_value}",
                  <<field_name, new_value>>),
              Writer_change_header(f,
                  [Header(None, None, None, None)
                       EXCEPT ![field_name] = new_value]).file)

\* TransactionManager.validate
Manager_validate(f) == validate_file(f)

\* the keyword filters of get_field
Filters(counter, amount, currency, limit) ==
    [counter |-> counter, amount |-> amount, currency |-> currency,
     limit |-> limit]

\* TransactionManager.get_field for one section name: the dict returned has
\* the one key field_name; filters.limit is not handed to get_transactions
Manager_get_field(f, field_name, filters) ==
    LET data == IF field_name = "header" THEN read_header(f)
                ELSE IF field_name = "footer" THEN read_footer(f)
                ELSE get_transactions(f, filters.counter, filters.amount,
                                      filters.currency, None)
    IN  IF field_name \notin {"header", "footer", "transactions"}
        THEN Msg("Invalid field names", <<>>)
        ELSE IF IsRaise(data) THEN MsgRaise(data.exc)
        ELSE Msg("{results}", <<field_name, data>>)

\* ------------------------------------------------------------------------
\* The state machine: one TransactionManager and the ledger file it is bound
\* to.  Every action is one call of the Manager's public interface.
\* ------------------------------------------------------------------------
VARIABLES
    bound,                \* self.reader and self.writer are set (set_file ran)
    file_handler,         \* self.file_handler: None, or the filepath (a
                          \* pathlib.Path) of the File it holds
    file,                 \* content of the ledger file
    os_linesep,           \* os.linesep of the platform
    locked_fields,        \* self.locked_fields
    locked_transactions,  \* self.locked_transactions
    last,                 \* the latest call: [op, arg, ret]
    history,              \* the transactions appended so far, as supplied
    edits,                \* number of modify_field("transactions", ...) calls
                          \* and of damages done to the file on disk
    written_header        \* the Header that add_header wrote, None before

vars == <<bound, file_handler, file, os_linesep, locked_fields, locked_transactions, last,
          history, edits, written_header>>

\* most transaction lines a ledger grows to
MaxTx == 2

\* most modify_field("transactions", ...) calls in a behaviour
MaxEdits == 1

Call(op, arg, ret) == [op |-> op, arg |-> arg, ret |-> ret]

\* number of lines tagged "02"
TxLineCount(f) ==
    LET lines == LinesFrom(f, 0)
    IN  Cardinality({i \in 1..Len(lines) : StartsWith(lines[i], <<"0", "2">>)})

Init ==
    /\ bound = FALSE
    /\ file_handler = None
    /\ file = <<>>
    /\ os_linesep \in {<<"\n">>, <<"\r", "\n">>}
    /\ locked_fields = {}
    /\ locked_transactions = NoLocks
    /\ last = Call("__init__", <<>>, Msg("", <<>>))
    /\ history = <<>>
    /\ edits = 0
    /\ written_header = None

\* set_file(file_path), file_path being a pathlib.Path or a str; the File
\* keeps Path(file_path).  A call with the filepath of the File at hand changes
\* nothing.  Any other call opens a new File, the file at the path being
\* opened as it is or created empty when it does not exist, and binds a new
\* Reader and Writer to it; the File held before is not closed: its file
\* object is released when the Reader and the Writer that referred to it
\* are replaced.  The events of the call are kept in order in the result.
\* The model keeps the content of one file: the Manager is moved from one
\* path to another only while nothing has been written.
SetFileTo(file_path) ==
    /\ IF file_handler # None /\ file_handler = file_path
       THEN /\ UNCHANGED <<bound, file_handler>>
            /\ last' = Call("set_file", file_path, Msg("", <<>>))
       ELSE /\ file_handler # None => file = <<>>
            /\ file_handler' = [type |-> "Path", s |-> file_path.s]
            /\ bound' = TRUE
            /\ last' = Call("set_file", file_path,
                            Msg("", IF file_handler = None THEN <<"open">>
                                    ELSE <<"open", "dealloc">>))
    /\ UNCHANGED <<file, os_linesep, locked_fields, locked_transactions,
                   history, edits, written_header>>

\* set_file with the path of the ledger
SetFile == SetFileTo([type |-> "Path", s |-> "ledger"])

\* a Manager call that goes to the file without the test for a bound file
FileCall_unbound(op, arg, res) ==
    /\ file' = res.file
    /\ last' = Call(op, arg, res.ret)
    /\ UNCHANGED <<bound, file_handler, os_linesep, locked_fields, locked_transactions>>

\* a Manager call that goes to the file: refused while no file is set
FileCall(op, arg, res) ==
    /\ IF bound
       THEN /\ file' = res.file
            /\ last' = Call(op, arg, res.ret)
       ELSE /\ file' = file
            /\ last' = Call(op, arg, Msg(NoFileSet, <<>>))
    /\ UNCHANGED <<bound, file_handler, os_linesep, locked_fields, locked_transactions>>

AddedTransaction == "Added transaction: {transaction}"

AddHeader(header) ==
    /\ FileCall("add_header", header,
                Manager_add_header(file, header, os_linesep))
    /\ written_header' = IF file = <<>> /\ file' # <<>> THEN header
                         ELSE written_header
    /\ UNCHANGED <<history, edits>>

\* add_transaction; the ledger is not grown past MaxTx transaction lines
AddTransaction(transaction) ==
    /\ FileCall("add_transaction", transaction,
                Manager_add_transaction(file, transaction))
    /\ TxLineCount(file') <= MaxTx
    /\ history' = IF last'.ret.msg = AddedTransaction
                  THEN Append(history, transaction)
                  ELSE history
    /\ UNCHANGED <<edits, written_header>>

ModifyHeader(field_name, new_value) ==
    /\ FileCall("modify_field", <<field_name, new_value>>,
                Manager_modify_header(file, locked_fields, field_name,
                                      new_value))
    /\ UNCHANGED <<history, edits, written_header>>

\* Writer.change_header on the Writer of the bound file
ChangeHeader(header) ==
    /\ bound
    /\ file' = Writer_change_header(file, header).file
    /\ last' = Call("change_header", header, Msg("", <<>>))
    /\ UNCHANGED <<bound, file_handler, os_linesep, locked_fields, locked_transactions,
                   history, edits, written_header>>

ModifyTransactions(new_value) ==
    /\ edits < MaxEdits
    /\ edits' = edits + 1
    /\ FileCall("modify_field", <<"transactions", new_value>>,
                Manager_modify_transactions(file, locked_transactions,
                                            new_value))
    /\ UNCHANGED <<history, written_header>>

Validate ==
    /\ FileCall("validate", <<>>, MRes(Manager_validate(file), file))
    /\ UNCHANGED <<history, edits, written_header>>

\* get_field through a handle that truncates the file it reads
GetField_truncating(field_name, filters) ==
    /\ FileCall("get_field", <<field_name, filters>>,
                MRes(Manager_get_field(file, field_name, filters), <<>>))
    /\ UNCHANGED <<history, edits, written_header>>

\* TransactionManager.get_field for one section name and the keyword filters
GetField(field_name, filters) ==
    /\ FileCall("get_field", <<field_name, filters>>,
                MRes(Manager_get_field(file, field_name, filters), file))
    /\ UNCHANGED <<history, edits, written_header>>

\* Reader.get_transactions on the Reader of the bound file
GetTransactions(counter, amount, currency, limit) ==
    /\ bound
    /\ last' = Call("get_transactions", <<counter, amount, currency, limit>>,
                    LET r == get_transactions(file, counter, amount, currency,
                                              limit)
                    IN  IF IsRaise(r) THEN MsgRaise(r.exc)
                        ELSE Msg("{transactions}", <<r.items>>))
    /\ UNCHANGED <<bound, file_handler, file, os_linesep, locked_fields,
                   locked_transactions, history, edits, written_header>>

\* TransactionManager.lock_field
LockField(field_name, filter_value) ==
    /\ IF field_name \in DOMAIN HeaderFields_FIELD_SIZES
       THEN /\ locked_fields' = locked_fields \cup {field_name}
            /\ UNCHANGED locked_transactions
            /\ last' = Call("lock_field", <<field_name, filter_value>>,
                            Msg("Locked header field: {field_name}", <<>>))
       ELSE IF field_name \in {"counter", "amount", "currency"}
       THEN /\ locked_transactions' =
                   [locked_transactions EXCEPT ![field_name] =
                       IF IsNone(filter_value) THEN [@ EXCEPT !.all = TRUE]
                       ELSE [@ EXCEPT !.vals = @ \cup {LockKey(filter_value)}]]
            /\ UNCHANGED locked_fields
            /\ last' = Call("lock_field", <<field_name, filter_value>>,
                            Msg("Locked transactions where {field_name}={filter_value}",
                                <<>>))
       ELSE /\ UNCHANGED <<locked_fields, locked_transactions>>
            /\ last' = Call("lock_field", <<field_name, filter_value>>,
                            Msg("Invalid field name for locking", <<>>))
    /\ UNCHANGED <<bound, file_handler, file, os_linesep, history, edits, written_header>>

\* TransactionManager.unlock_field
UnlockField(field_name, filter_value) ==
    /\ IF field_name \in DOMAIN HeaderFields_FIELD_SIZES
       THEN IF field_name \in locked_fields
            THEN /\ locked_fields' = locked_fields \ {field_name}
                 /\ UNCHANGED locked_transactions
                 /\ last' = Call("unlock_field", <<field_name, filter_value>>,
                                 Msg("Unlocked header field: {field_name}", <<>>))
            ELSE /\ UNCHANGED <<locked_fields, locked_transactions>>
                 /\ last' = Call("unlock_field", <<field_name, filter_value>>,
                                 Msg("Error: Field '{field_name}' was not locked.",
                                     <<>>))
       ELSE IF field_name \in {"counter", "amount", "currency"}
       THEN IF InLocked(locked_transactions, field_name, filter_value)
            THEN /\ locked_transactions' =
                        [locked_transactions EXCEPT ![field_name] =
                            IF IsNone(filter_value)
                            THEN [@ EXCEPT !.all = FALSE]
                            ELSE [@ EXCEPT !.vals = @ \ {LockKey(filter_value)}]]
                 /\ UNCHANGED locked_fields
                 /\ last' = Call("unlock_field", <<field_name, filter_value>>,
                                 Msg("Unlocked transactions where {field_name}={filter_value}",
                                     <<>>))
            ELSE /\ UNCHANGED <<locked_fields, locked_transactions>>
                 /\ last' = Call("unlock_field", <<field_name, filter_value>>,
                                 Msg("Error: Transactions where {field_name}={filter_value} were not locked.",
                                     <<>>))
       ELSE /\ UNCHANGED <<locked_fields, locked_transactions>>
            /\ last' = Call("unlock_field", <<field_name, filter_value>>,
                            Msg("Invalid field name for unlocking", <<>>))
    /\ UNCHANGED <<bound, file_handler, file, os_linesep, history, edits, written_header>>

\* ------------------------------------------------------------------------
\* Inputs
\* ------------------------------------------------------------------------
S_USD == Str(<<"U", "S", "D">>)
S_EUR == Str(<<"E", "U", "R">>)

D_100_00 == Dec(FALSE, <<1, 0, 0, 0, 0>>, -2)               \* Decimal("100.00")
D_200_50 == Dec(FALSE, <<2, 0, 0, 5, 0>>, -2)               \* Decimal("200.50")
D_5_00 == Dec(FALSE, <<5, 0, 0>>, -2)                       \* Decimal("5.00")
\* Decimal("9999999999"): 999999999900 cents, the most that 12 digits hold
\* of a whole amount
D_9999999999 == Dec(FALSE, <<9, 9, 9, 9, 9, 9, 9, 9, 9, 9>>, 0)

HeaderABCD ==
    Header(Str(<<"A">>), Str(<<"B">>), Str(<<"C">>), Str(<<"D">>))

\* the headers given to add_header: a complete one, one with a field left
\* None, one whose name is a character longer than its field, and one whose
\* name ends with a space
HeaderInputs ==
    {HeaderABCD,
     Header(None, Str(<<"B">>), Str(<<"C">>), Str(<<"D">>)),
     Header(Str(Rep("N", HeaderFields_FIELD_SIZES.name + 1)), Str(<<"B">>),
            Str(<<"C">>), Str(<<"D">>)),
     Header(Str(<<"A", " ">>), Str(<<"B">>), Str(<<"C">>), Str(<<"D">>))}

\* the transactions given to add_transaction: four that the Manager appends
\* and eight that the Manager or the Writer refuses on every ledger
AppendInputs ==
    {Transaction(None, D_100_00, S_USD),
     Transaction(None, D_200_50, S_EUR),
     Transaction(Int32(5), Dec(TRUE, <<5, 0, 0>>, -2), S_USD),   \* -5.00
     Transaction(None, D_9999999999, S_USD),
     \* Decimal("10000000000"): 1000000000000 cents, 13 digits
     Transaction(None, Dec(FALSE, <<1, 0, 0, 0, 0, 0, 0, 0, 0, 0, 0>>, 0),
                 S_USD),
     \* Decimal("10000000.00"): 1000000000 cents, 10 digits
     Transaction(None, Dec(FALSE, <<1, 0, 0, 0, 0, 0, 0, 0, 0, 0>>, -2),
                 S_USD),
     Transaction(None, Dec(FALSE, <<1>>, -3), S_USD),           \* 0.001
     Transaction(None, Dec(FALSE, <<1>>, 3), S_USD),            \* 1E+3
     Transaction(None, None, S_USD),
     Transaction(None, Str(<<"1", "0", "0", ".", "0">>), S_USD),
     Transaction(None, D_100_00, Str(<<"U", "S">>)),
     Transaction(None, D_100_00, None)}

\* ------------------------------------------------------------------------
\* SpecAppend: a ledger that is only created and appended to
\* ------------------------------------------------------------------------
NextAppend ==
    \/ SetFile
    \/ \E header \in HeaderInputs : AddHeader(header)
    \/ \E transaction \in AppendInputs : AddTransaction(transaction)
    \/ Validate

SpecAppend == Init /\ [][NextAppend]_vars

\* ------------------------------------------------------------------------
\* Spec: appends, in-place edits and locks
\* ------------------------------------------------------------------------
SpecTransactions ==
    {Transaction(None, D_100_00, S_USD),
     Transaction(None, D_200_50, S_EUR)}

Next ==
    \/ SetFile
    \/ AddHeader(HeaderABCD)
    \/ \E transaction \in SpecTransactions : AddTransaction(transaction)
    \/ ModifyHeader("name", Str(<<"X">>))
    \/ \E new_value \in
            {<<Transaction(Int32(1), D_5_00, None)>>,
             <<Transaction(Int32(1), None, S_EUR)>>,
             <<Transaction(Int32(2), D_100_00, S_EUR)>>,
             <<Transaction(Int32(1), None, Str(<<"A", "B", "C", "D">>))>>,
             <<Transaction(Int32(1), D_9999999999, None),
               Transaction(Int32(2), D_9999999999, None)>>,
             <<Transaction(Int32(MaxTx + 1), D_5_00, None)>>} :
          ModifyTransactions(new_value)
    \/ \E a \in {<<"amount", D_100_00>>, <<"name", None>>} :
          LockField(a[1], a[2])
    \/ \E a \in {<<"amount", D_100_00>>, <<"name", None>>} :
          UnlockField(a[1], a[2])
    \/ Validate

Spec == Init /\ [][Next]_vars

\* ------------------------------------------------------------------------
\* SpecHeader: the header is created, read, edited and locked field by field
\* ------------------------------------------------------------------------
\* arguments of get_field
FieldInputs ==
    {<<"header", Filters(None, None, None, None)>>, <<"footer", Filters(None, None, None, None)>>,
     <<"transactions", Filters(None, None, None, None)>>,
     <<"transactions", Filters(None, None, None, Int32(1))>>,
     <<"bogus", Filters(None, None, None, None)>>}

NextHeader ==
    \/ SetFile
    \/ \E header \in HeaderInputs : AddHeader(header)
    \/ AddTransaction(Transaction(None, D_100_00, S_USD))
    \/ \E field_name \in {"name", "address"},
          new_value \in {Str(<<"X">>),
                         Str(Rep("N", HeaderFields_FIELD_SIZES.address + 1))} :
          ModifyHeader(field_name, new_value)
    \/ \E header \in
            {Header(Str(<<"X">>), None, None, Str(<<"X">>)),
             Header(Str(<<"X">>),
                    Str(Rep("S", HeaderFields_FIELD_SIZES.surname + 1)),
                    None, Str(<<"X">>)),
             Header(None, Str(<<"S">>), Str(<<>>), None)} :
          ChangeHeader(header)
    \/ \E field_name \in {"name", "address"} : LockField(field_name, None)
    \/ \E field_name \in {"name", "address"} : UnlockField(field_name, None)
    \/ \E a \in FieldInputs : GetField(a[1], a[2])
    \/ Validate

SpecHeader == Init /\ [][NextHeader]_vars

\* ------------------------------------------------------------------------
\* SpecRead: a ledger is appended to and queried
\* ------------------------------------------------------------------------
\* arguments of Reader.get_transactions: counter, amount, currency, limit,
\* each omitted, a scalar or a list
QueryInputs ==
    ({None, Int32(1), List(<<Int32(1), Int32(2)>>)}
        \X {None, Str(<<"1", "0", "0", ".", "0", "0">>)}
        \X {None, S_EUR}
        \X {None, Int32(1)})
    \cup {<<None, List(<<Str(<<"2", "0", "0", ".", "5", "0">>)>>),
            List(<<S_USD, S_EUR>>), None>>,
          <<None, Int32(100), None, None>>,
          <<List(<<Int32(1), Int32(2)>>), None, List(<<S_USD, S_EUR>>),
            Int32(1)>>}

NextRead ==
    \/ SetFile
    \/ AddHeader(HeaderABCD)
    \/ \E transaction \in SpecTransactions : AddTransaction(transaction)
    \/ \E a \in FieldInputs : GetField(a[1], a[2])
    \/ \E q \in QueryInputs : GetTransactions(q[1], q[2], q[3], q[4])
    \/ Validate

SpecRead == Init /\ [][NextRead]_vars

\* ------------------------------------------------------------------------
\* SpecLock: transactions are locked by counter and edited in place
\* ------------------------------------------------------------------------
NextLock ==
    \/ SetFile
    \/ AddHeader(HeaderABCD)
    \/ AddTransaction(Transaction(None, D_100_00, S_USD))
    \/ \E new_value \in
            {<<Transaction(Int32(2), D_5_00, None)>>,
             <<Transaction(Int32(1), D_5_00, S_EUR),
               Transaction(Int32(2), D_200_50, S_EUR)>>,
             <<Transaction(None, D_5_00, None)>>,
             <<Transaction(Int32(1), Dec(FALSE, <<1>>, 120), None)>>,
             <<Transaction(Int32(1), D_5_00, S_EUR),
               Transaction(Int32(0), D_200_50, None),
               Transaction(Int32(2), D_5_00, None)>>,
             <<Transaction(Int32(-1), D_5_00, None)>>} :
          ModifyTransactions(new_value)
    \/ \E v \in {Int32(2), None} : LockField("counter", v)
    \/ \E v \in {Int32(2), None} : UnlockField("counter", v)
    \/ Validate

SpecLock == Init /\ [][NextLock]_vars

\* ------------------------------------------------------------------------
\* SpecRegistry: the lock registry is filled and emptied entry by entry, and
\* edits are tested against it
\* ------------------------------------------------------------------------
\* TransactionManager._is_transaction_locked called on one edit
IsTransactionLocked(transaction) ==
    /\ last' = Call("_is_transaction_locked", transaction,
                    Msg("{locked}",
                        <<_is_transaction_locked(locked_transactions,
                                                 transaction)>>))
    /\ UNCHANGED <<bound, file_handler, file, os_linesep, locked_fields,
                   locked_transactions, history, edits, written_header>>

NextRegistry ==
    \/ \E a \in {<<"counter", None>>, <<"counter", Int32(1)>>,
                 <<"amount", None>>, <<"amount", D_100_00>>,
                 <<"currency", None>>, <<"currency", S_USD>>,
                 <<"name", None>>, <<"bogus", Int32(1)>>} :
          \/ LockField(a[1], a[2])
          \/ UnlockField(a[1], a[2])
    \/ \E file_path \in {[type |-> "Path", s |-> "ledger"],
                         [type |-> "Path", s |-> "other"],
                         [type |-> "str", s |-> "ledger"]} :
          SetFileTo(file_path)
    \/ \E transaction \in
            {Transaction(Int32(1), None, None),
             Transaction(Int32(2), D_100_00, None),
             Transaction(Int32(2), Dec(FALSE, <<1, 0, 0, 0>>, -1), S_EUR),
             Transaction(Int32(2), None, S_USD),
             Transaction(Int32(2), D_5_00, S_EUR),
             Transaction(None, None, None)} :
          IsTransactionLocked(transaction)

SpecRegistry == Init /\ [][NextRegistry]_vars

\* ------------------------------------------------------------------------
\* SpecCrash: a ledger is appended to and edited, and a call may stop between
\* its writes
\* ------------------------------------------------------------------------
\* add_transaction (op = "add_transaction", arg a Transaction) or
\* modify_field("transactions", arg) that would have succeeded, stopped after
\* its writes of the transaction line or of the fields and before its write
\* of the footer
Interrupted(op, arg) ==
    /\ bound
    /\ edits < MaxEdits
    /\ edits' = edits + 1
    /\ \E done \in {IF op = "add_transaction"
                     THEN Manager_add_transaction(file, arg)
                     ELSE Manager_modify_transactions(file,
                              locked_transactions, arg)},
          footer_pos \in {Len(file) - (LINESIZE + Len(os_linesep))} :
          /\ done.ret.msg \in
                 {AddedTransaction,
                  "Updated {field_name} in matching transactions: {new_value}"}
          /\ file' = IF op = "add_transaction"
                     THEN SubSeq(done.file, 1,
                                 Len(done.file)
                                     - (LINESIZE + Len(os_linesep)))
                     ELSE SubSeq(done.file, 1, footer_pos)
                          \o SubSeq(file, footer_pos + 1, Len(file))
    /\ last' = Call(op, arg, MsgRaise("KeyboardInterrupt"))
    /\ UNCHANGED <<bound, file_handler, os_linesep, locked_fields, locked_transactions,
                   history, written_header>>

NextCrash ==
    \/ SetFile
    \/ AddHeader(HeaderABCD)
    \/ \E transaction \in SpecTransactions : AddTransaction(transaction)
    \/ \E transaction \in SpecTransactions :
          Interrupted("add_transaction", transaction)
    \/ \E new_value \in
            {<<Transaction(Int32(1), D_5_00, None)>>,
             <<Transaction(Int32(1), None, S_EUR)>>,
             <<Transaction(Int32(1), D_5_00, S_EUR),
               Transaction(Int32(2), D_200_50, None)>>} :
          Interrupted("modify_field", new_value)
    \/ Validate

SpecCrash == Init /\ [][NextCrash]_vars

\* ------------------------------------------------------------------------
\* SpecNearMax: the Manager is bound to a ledger that already exists and
\* whose last transaction line carries a counter at or next to
\* MAX_TRANSACTIONS, and appends to it
\* ------------------------------------------------------------------------
\* a transaction line as add_transaction lays it out
TransactionLine(counter, cents, currency) ==
    <<"0", "2">>
    \o FormatInt(BigOfInt(counter), TransactionFields_FIELD_SIZES.counter)
    \o FormatInt(cents, TransactionFields_FIELD_SIZES.amount)
    \o RJust(currency.s, TransactionFields_FIELD_SIZES.currency)
    \o Rep(" ", TransactionFields_FIELD_SIZES.reserved)

\* a footer line as _update_footer lays it out
FooterLine(total_counter, cents) ==
    <<"0", "3">>
    \o FormatInt(BigOfInt(total_counter), FooterFields_FIELD_SIZES.total_counter)
    \o FormatInt(cents, FooterFields_FIELD_SIZES.control_sum)
    \o Rep(" ", FooterFields_FIELD_SIZES.reserved)

\* the file set_file finds at the path: a header, the transaction line whose
\* counter is last_counter (the last record of the ledger) and the footer
ExistingLedger(last_counter, linesep) ==
    Writer_set_header(<<>>, HeaderABCD, linesep).file
    \o TransactionLine(last_counter, Cents(D_100_00), S_USD) \o linesep
    \o FooterLine(last_counter, Cents(D_100_00)) \o linesep

InitNearMax ==
    /\ bound = FALSE
    /\ file_handler = None
    /\ os_linesep \in {<<"\n">>, <<"\r", "\n">>}
    /\ \E last_counter \in {MAX_TRANSACTIONS - 1, MAX_TRANSACTIONS} :
           file = ExistingLedger(last_counter, os_linesep)
    /\ locked_fields = {}
    /\ locked_transactions = NoLocks
    /\ last = Call("__init__", <<>>, Msg("", <<>>))
    /\ history = <<>>
    /\ edits = 0
    /\ written_header = None

SpecNearMax == InitNearMax /\ [][NextAppend]_vars

\* ------------------------------------------------------------------------
\* SpecDamaged: the Manager is bound to a ledger that the library wrote and
\* that is then damaged on disk by other hands, and validates and queries it
\* ------------------------------------------------------------------------
\* most damages done to a ledger
MaxDamage == 2

\* the ledger the library writes for a header and n appended transactions
RECURSIVE SeededLedger(_, _)
SeededLedger(n, linesep) ==
    IF n = 0 THEN Writer_set_header(<<>>, HeaderABCD, linesep).file
    ELSE Writer_add_transaction(
             SeededLedger(n - 1, linesep),
             IF n % 2 = 1 THEN Transaction(None, D_100_00, S_USD)
             ELSE Transaction(None, D_200_50, S_EUR)).file

InitDamaged ==
    /\ bound = TRUE
    /\ file_handler = [type |-> "Path", s |-> "ledger"]
    /\ os_linesep \in {<<"\n">>, <<"\r", "\n">>}
    /\ \E n \in 1..MaxTx : file = SeededLedger(n, os_linesep)
    /\ locked_fields = {}
    /\ locked_transactions = NoLocks
    /\ last = Call("set_file", <<>>, Msg("", <<>>))
    /\ history = <<>>
    /\ edits = 0
    /\ written_header = None

\* the file is changed on disk behind the library: the del characters from
\* column col of line k on (line 0 is the header, line -1 the last line of
\* the file) give way to the characters s
Damage(k, col, del, s) ==
    /\ edits < MaxDamage
    /\ edits' = edits + 1
    /\ LET line_size == LINESIZE + Len(os_linesep)
           pos == (IF k < 0 THEN Len(file) - line_size ELSE k * line_size)
                  + col
       IN  /\ pos >= line_size
           /\ pos + del <= Len(file)
           /\ file' = SubSeq(file, 1, pos) \o s
                      \o SubSeq(file, pos + del + 1, Len(file))
    /\ last' = Call("damage", <<k, col, del, s>>, Msg("", <<>>))
    /\ UNCHANGED <<bound, file_handler, os_linesep, locked_fields, locked_transactions,
                   history, written_header>>

NextDamaged ==
    \/ SetFile
    \/ \E k \in 1..MaxTx : Damage(k, 0, LINESIZE + Len(os_linesep), <<>>)
    \/ \E d \in {<<1, 0, 2, <<"0", "9">>>>,       \* tag of line 1
                 <<1, 30, 0, <<" ">>>>,            \* line 1 a space longer
                 <<1, 19, 1, <<"x">>>>,            \* amount of line 1
                 <<1, 23, 1, <<"x">>>>,            \* reserved span of line 1
                 <<2, 1, 1, <<"9">>>>,             \* tag of line 2
                 <<2, 119, 1, <<"x">>>>,           \* reserved span of line 2
                 <<2, 7, 1, <<"1">>>>,             \* counter of line 2
                 <<-1, 7, 1, <<"9">>>>,            \* count of the footer
                 <<-1, 19, 1, <<"9">>>>,           \* sum of the footer
                 <<-1, 20, 1, <<"x">>>>} :         \* reserved of the footer
          Damage(d[1], d[2], d[3], d[4])
    \* a copy of line 1 is appended to the ledger as it was seeded
    \/ /\ edits = 0
       /\ Damage(-1, LINESIZE + Len(os_linesep), 0,
                 ReadLine(file, LINESIZE + Len(os_linesep)))
    \/ Validate
    \/ \E q \in {<<List(<<Int32(1)>>), None, None, None>>,
                 <<None, None, None, Int32(0)>>,
                 <<Int32(1), None, None, Int32(2)>>,
                 <<None, None, List(<<S_USD, S_EUR>>), Int32(1)>>} :
          GetTransactions(q[1], q[2], q[3], q[4])

SpecDamaged == InitDamaged /\ [][NextDamaged]_vars

\* ------------------------------------------------------------------------
\* Views of the file used to state the properties
\* ------------------------------------------------------------------------
\* the physical lines of the file, each with its terminator
Lines == LinesFrom(file, 0)

\* the lines tagged "02", in file order
TxLines == SelectSeq(Lines, LAMBDA l : StartsWith(l, <<"0", "2">>))

LastLine == Lines[Len(Lines)]

\* the sum of the amounts of a sequence of transactions
RECURSIVE SumAmounts(_)
SumAmounts(ts) ==
    IF ts = <<>> THEN Dec(FALSE, <<0>>, 0)
    ELSE DecAdd(SumAmounts(SubSeq(ts, 1, Len(ts) - 1)), ts[Len(ts)].amount)

\* the latest call was an add_transaction that reported success
JustAdded == last.op = "add_transaction" /\ last.ret.msg = AddedTransaction

\* ------------------------------------------------------------------------
\* C1 (SpecAppend): once a header has been added and n >= 1 transactions
\* appended, the last line is a footer whose total_counter field is n, n being
\* the number of "02" lines, and whose control_sum field is the sum of the n
\* appended amounts in cents.
\* ------------------------------------------------------------------------
C1_FooterMatchesAppends ==
    history # <<>> =>
        /\ StartsWith(LastLine, <<"0", "3">>)
        /\ Len(TxLines) = Len(history)
        /\ Slice(LastLine, 2, 8) = FormatInt(BigOfInt(Len(history)), 6)
        /\ Slice(LastLine, 8, 20) = FormatInt(Cents(SumAmounts(history)), 12)
        /\ read_footer(file).total_counter = Len(history)
        /\ DecEq(read_footer(file).control_sum, SumAmounts(history))

C1_Witness == JustAdded /\ Len(history) = 2

\* ------------------------------------------------------------------------
\* C2 (SpecAppend): a ledger built by add_header and n >= 1 add_transaction
\* calls that reported success passes validation.
\* ------------------------------------------------------------------------
C2_AppendedLedgerValidates ==
    history # <<>> => Manager_validate(file).msg = ValidationSuccessful

\* ------------------------------------------------------------------------
\* C3 (SpecAppend): the k-th successful add_transaction writes counter k,
\* whatever transaction_id the caller supplied: the file is the header, then
\* the lines "02" with counters 1..n in order, then the footer.
\* ------------------------------------------------------------------------
C3_CountersAscend ==
    history # <<>> =>
        /\ Len(Lines) = Len(history) + 2
        /\ StartsWith(Lines[1], <<"0", "1">>)
        /\ StartsWith(LastLine, <<"0", "3">>)
        /\ \A k \in 1..Len(history) :
              Slice(Lines[k + 1], 0, 8)
                  = <<"0", "2">> \o FormatInt(BigOfInt(k), 6)

C3_Witness ==
    /\ JustAdded
    /\ Len(history) = 2
    /\ history[2].transaction_id = Int32(5)

\* ------------------------------------------------------------------------
\* Further views
\* ------------------------------------------------------------------------
\* the latest call was a mutation that reported success and left a ledger
\* (add_header reports success also when set_header refused the header and
\* the file stayed empty)
SuccessfulMutation ==
    /\ last.op \in {"add_header", "add_transaction", "modify_field"}
    /\ last.ret.msg \in
           {"Header added successfully.", AddedTransaction,
            "Updated {field_name}: {new_value}",
            "Updated {field_name} in matching transactions: {new_value}"}
    /\ file # <<>>

\* the latest call was a successful add_transaction or a successful
\* modify_field("transactions", ...)
SuccessfulTransactionMutation ==
    /\ SuccessfulMutation
    /\ \/ last.op = "add_transaction"
       \/ last.op = "modify_field" /\ last.arg[1] = "transactions"

FooterLines == SelectSeq(Lines, LAMBDA l : StartsWith(l, <<"0", "3">>))

\* the counter of the last line tagged "02"
LastCounter == IntOfBig(IntOfStr(Slice(TxLines[Len(TxLines)], 2, 8)))

\* the number of digits of an integer
NumDigits(n) == Len(StripZeros(n.digs))

\* ------------------------------------------------------------------------
\* C4 (Spec): after every successful mutation every physical line is 120
\* characters followed by the line terminator of the file.
\* ------------------------------------------------------------------------
C4_EveryLineFull ==
    SuccessfulMutation =>
        \A i \in 1..Len(Lines) :
            /\ Len(Lines[i]) = LINESIZE + Len(os_linesep)
            /\ EndsWith(Lines[i], os_linesep)

\* ------------------------------------------------------------------------
\* C5 (SpecAppend): after every successful add_transaction or
\* modify_field("transactions", ...) the counter and amount fields of every
\* transaction line and the total_counter and control_sum fields of the
\* footer hold ASCII digits only.
\* ------------------------------------------------------------------------
C5_NumericFieldsAreDigits ==
    SuccessfulTransactionMutation =>
        /\ \A i \in 1..Len(TxLines) :
              /\ AllDigits(Slice(TxLines[i], TransactionFields_COUNTER[1],
                                 TransactionFields_COUNTER[2]))
              /\ AllDigits(Slice(TxLines[i], TransactionFields_AMOUNT[1],
                                 TransactionFields_AMOUNT[2]))
        /\ \A i \in 1..Len(FooterLines) :
              /\ AllDigits(Slice(FooterLines[i], FooterFields_TOTAL_COUNTER[1],
                                 FooterFields_TOTAL_COUNTER[2]))
              /\ AllDigits(Slice(FooterLines[i], FooterFields_CONTROL_SUM[1],
                                 FooterFields_CONTROL_SUM[2]))

\* ------------------------------------------------------------------------
\* C6 (Spec): after every successful mutation the reserved span of every
\* transaction line (offsets 23..119) and of the footer (offsets 20..119)
\* holds spaces only.
\* ------------------------------------------------------------------------
C6_ReservedSpansBlank ==
    SuccessfulMutation =>
        /\ \A i \in 1..Len(TxLines) :
              AllSpaces(Slice(TxLines[i], TransactionFields_RESERVED[1],
                              TransactionFields_RESERVED[2]))
        /\ \A i \in 1..Len(FooterLines) :
              AllSpaces(Slice(FooterLines[i], FooterFields_RESERVED[1],
                              FooterFields_RESERVED[2]))

\* ------------------------------------------------------------------------
\* C7 (SpecAppend): after every successful mutation, add_header on a fresh
\* file included, line 1 is a header record and the last line is a footer
\* record.
\* ------------------------------------------------------------------------
C7_HeaderFirstFooterLast ==
    SuccessfulMutation =>
        /\ StartsWith(Lines[1], <<"0", "1">>)
        /\ StartsWith(LastLine, <<"0", "3">>)

\* ------------------------------------------------------------------------
\* C8 (SpecNearMax): no transaction line carries a counter above
\* MAX_TRANSACTIONS, and an add_transaction on a ledger whose last
\* transaction's counter has reached MAX_TRANSACTIONS does not report success
\* and leaves the file as it was.
\* ------------------------------------------------------------------------
C8_RefusedAtMax ==
    /\ [](\A i \in 1..Len(TxLines) :
             IntOfBig(IntOfStr(Slice(TxLines[i], 2, 8))) <= MAX_TRANSACTIONS)
    /\ [][(/\ last'.op = "add_transaction"
           /\ bound
           /\ LastCounter >= MAX_TRANSACTIONS)
          => /\ file' = file
             /\ last'.ret.msg \notin {AddedTransaction, "raise"}]_vars

\* a transaction the Manager accepts was refused on a ledger that an earlier
\* append had brought to MAX_TRANSACTIONS
C8_Witness ==
    /\ last.op = "add_transaction"
    /\ last.arg = Transaction(None, D_200_50, S_EUR)
    /\ last.ret.msg = "Something went wrong, check the logs"
    /\ Len(history) = 1
    /\ Len(TxLines) = 2
    /\ LastCounter = MAX_TRANSACTIONS

\* ------------------------------------------------------------------------
\* C9 (SpecAppend): an add_transaction whose amount is 13 or more digits of
\* cents, or whose amount would take the footer's control_sum to 13 or more
\* digits, does not report success and leaves the file as it was.
\* ------------------------------------------------------------------------
C9_OverflowRefused ==
    [][(/\ last'.op = "add_transaction"
        /\ bound
        /\ IsDecimal(last'.arg.amount)
        /\ \/ NumDigits(Cents(last'.arg.amount)) >= 13
           \/ /\ history # <<>>
              /\ NumDigits(Cents(DecAdd(read_footer(file).control_sum,
                                        last'.arg.amount))) >= 13)
       => /\ file' = file
          /\ last'.ret.msg # AddedTransaction]_vars

\* an amount of 12 digits of cents was refused on a ledger whose control_sum
\* it would have taken to 13 digits
C9_Witness ==
    /\ last.op = "add_transaction"
    /\ last.arg.amount = D_9999999999
    /\ ~IsNone(last.arg.currency)
    /\ last.ret.msg = "Something went wrong, check the logs"
    /\ Len(history) = 1
    /\ history[1].amount = D_9999999999

\* ------------------------------------------------------------------------
\* C10 (Spec): while the amount 100.00 is locked, a
\* modify_field("transactions", batch) leaves untouched the line of every
\* transaction that an edit of the batch names and whose amount on disk is
\* 100.00.
\* ------------------------------------------------------------------------
C10_LockedAmountUntouched ==
    [][(/\ last'.op = "modify_field"
        /\ last'.arg[1] = "transactions"
        /\ bound
        /\ InLocked(locked_transactions, "amount", D_100_00))
       => \A e \in 1..Len(last'.arg[2]) :
             \A k \in 1..(Len(Lines) - 1) :
                (/\ last'.arg[2][e].transaction_id = Int32(k)
                 /\ StartsWith(Lines[k + 1], <<"0", "2">>)
                 /\ Slice(Lines[k + 1], TransactionFields_AMOUNT[1],
                          TransactionFields_AMOUNT[2])
                        = FormatInt(Cents(D_100_00),
                                    TransactionFields_FIELD_SIZES.amount))
                => /\ Len(LinesFrom(file', 0)) >= k + 1
                   /\ LinesFrom(file', 0)[k + 1] = Lines[k + 1]]_vars


\* the line at 0-based index k of the ledger f, <<>> when f has no such line
LineAt(f, k) ==
    LET lines == LinesFrom(f, 0)
    IN  IF Len(lines) >= k + 1 THEN lines[k + 1] ELSE <<>>

\* ------------------------------------------------------------------------
\* C11 (SpecLock): while counter k is locked, by its value or by the
\* wildcard, a modify_field("transactions", batch) call changes no byte of
\* transaction line k.
\* ------------------------------------------------------------------------
C11_LockedCounterUntouched ==
    [][(/\ last'.op = "modify_field"
        /\ last'.arg[1] = "transactions"
        /\ bound)
       => \A k \in 1..MaxTx :
             (/\ StartsWith(LineAt(file, k), <<"0", "2">>)
              /\ \/ InLocked(locked_transactions, "counter", None)
                 \/ InLocked(locked_transactions, "counter", Int32(k)))
             => LineAt(file', k) = LineAt(file, k)]_vars





\* ------------------------------------------------------------------------
\* C12 (SpecHeader): while the header field f is locked, modify_field(f, v)
\* returns "Error: Field 'f' is locked and cannot be modified." for every v
\* and leaves the file unchanged; once f is not locked the same call is no
\* longer refused with that message.
\* ------------------------------------------------------------------------
C12_LockedFieldRefused ==
    [][(/\ last'.op = "modify_field"
        /\ last'.arg[1] \in DOMAIN HeaderFields_FIELD_SIZES
        /\ bound)
       => IF last'.arg[1] \in locked_fields
          THEN /\ last'.ret = Msg("Error: Field '{field_name}' is locked and cannot be modified.", <<last'.arg[1]>>)
               /\ file' = file
          ELSE /\ last'.ret.msg # "Error: Field '{field_name}' is locked and cannot be modified."
               /\ ~IsNone(read_header(file))
                  => last'.ret.msg = "Updated {field_name}: {new_value}"]_vars

\* a locked field of an existing header has just been refused an edit
C12_Witness ==
    /\ last.op = "modify_field"
    /\ last.arg[1] \in DOMAIN HeaderFields_FIELD_SIZES
    /\ last.ret.msg = "Error: Field '{field_name}' is locked and cannot be modified."
    /\ last.arg[1] \in locked_fields
    /\ ~IsNone(read_header(file))

\* ------------------------------------------------------------------------
\* C13 (SpecHeader): whenever modify_field(f, v) on a header field returns
\* "Updated f: v", the header read back afterwards has f = v.
\* ------------------------------------------------------------------------
C13_UpdatedFieldReadsBack ==
    [][(/\ last'.op = "modify_field"
        /\ last'.arg[1] \in DOMAIN HeaderFields_FIELD_SIZES
        /\ last'.ret.msg = "Updated {field_name}: {new_value}")
       => /\ ~IsNone(read_header(file'))
          /\ read_header(file')[last'.arg[1]] = last'.arg[2]]_vars

C15_ErrorExactlyOnFailure ==
    [][(/\ last'.op \in {"add_header", "add_transaction", "modify_field"}
        /\ last'.ret.msg # "raise")
       => IF last'.ret.msg \in {NoFileSet, "Error: Field '{field_name}' is locked and cannot be modified.", "Error: Header already exists in file.",
                                 "Error: Header not found in file.",
                                 "Error: Invalid amount format",
                                 "Error: Amount must have at most two decimal places"}
          THEN file' = file
          ELSE /\ last'.op = "add_header"
                  => StartsWith(ReadLine(file', 0), <<"0", "1">>)
               /\ last'.op = "add_transaction"
                  => TxLineCount(file') = TxLineCount(file) + 1
               /\ last'.op = "modify_field"
                  => /\ ~IsNone(read_header(file'))
                     /\ read_header(file')[last'.arg[1]]
                            = Str(Strip(last'.arg[2].s))]_vars

\* ------------------------------------------------------------------------
\* C16 (SpecHeader): while no file is set, get_field, modify_field,
\* add_header, add_transaction and validate each return "Error: No file is
\* set. Use set_file() first." and change neither the file nor the lock
\* registry; only set_file binds the Manager, and nothing unbinds it.
\* ------------------------------------------------------------------------
C16_UnboundRefusesFileOps ==
    [][/\ (/\ ~bound
           /\ last'.op \in {"get_field", "modify_field", "add_header",
                            "add_transaction", "validate"})
          => /\ last'.ret = Msg(NoFileSet, <<>>)
             /\ file' = file
             /\ locked_fields' = locked_fields
             /\ locked_transactions' = locked_transactions
       /\ (~bound /\ bound') => last'.op = "set_file"
       /\ bound => bound']_vars

\* an unbound Manager that holds a lock has just refused a header edit
C16_Witness ==
    /\ ~bound
    /\ locked_fields # {}
    /\ last.op = "modify_field"
    /\ last.ret = Msg(NoFileSet, <<>>)

\* ------------------------------------------------------------------------
\* C17 (SpecAppend): once a header H was written and transactions T1..Tn
\* were appended, a full read returns a header whose four fields equal H
\* exactly and the transactions with ids 1..n and the amounts and currencies
\* of T1..Tn in order.
\* ------------------------------------------------------------------------
C17_ReadReturnsWhatWasWritten ==
    (written_header # None /\ history # <<>>)
    => LET content == read(file)
       IN  /\ content.type = "Content"
           /\ \A k \in DOMAIN HeaderFields_FIELD_SIZES :
                 content.header[k] = written_header[k]
           /\ Len(content.transactions) = Len(history)
           /\ \A i \in 1..Len(history) :
                 /\ content.transactions[i].transaction_id = i
                 /\ DecEq(content.transactions[i].amount,
                          DecimalOf(history[i].amount))
                 /\ content.transactions[i].currency = history[i].currency.s

AllTransactions == [i \in 1..Len(TxLines) |-> ParseTransaction(TxLines[i])]

\* the transaction t satisfies the three criteria, an omitted one being
\* satisfied by every transaction and a scalar standing for itself alone
Satisfies(t, counter, amount, currency) ==
    LET Values(c) == IF c.type = "list"
                     THEN {c.items[i] : i \in 1..Len(c.items)}
                     ELSE {c}
    IN  /\ IsNone(counter)
           \/ \E v \in Values(counter) : v.n = t.transaction_id
        /\ IsNone(amount)
           \/ \E v \in Values(amount) : DecEq(DecimalOf(v), t.amount)
        /\ IsNone(currency)
           \/ \E v \in Values(currency) : v.s = t.currency

\* the first limit members of s; all of s when no limit is given
FirstN(s, limit) ==
    IF IsNone(limit) THEN s ELSE SubSeq(s, 1, Min(Len(s), limit.n))

\* ------------------------------------------------------------------------
\* C19 (SpecRead): Reader.get_transactions returns, in file order, exactly
\* the transactions that satisfy every criterion supplied (a scalar stands
\* for the list of that one value, an omitted criterion matches all), cut to
\* the first limit of them when a limit is given.
\* ------------------------------------------------------------------------
C19_ExactlyTheMatches ==
    last.op = "get_transactions"
    => /\ last.ret.msg = "{transactions}"
       /\ last.ret.args[1]
              = FirstN(SelectSeq(AllTransactions,
                                 LAMBDA t : Satisfies(t, last.arg[1],
                                                      last.arg[2], last.arg[3])),
                       last.arg[4])

\* of two transactions on disk the one in EUR has just been selected by a
\* list of counters and a scalar currency
C19_Witness ==
    /\ last.op = "get_transactions"
    /\ last.arg = <<List(<<Int32(1), Int32(2)>>), None, S_EUR, None>>
    /\ Len(TxLines) = 2
    /\ Len(last.ret.args[1]) = 1
    /\ last.ret.args[1][1].currency = S_EUR.s

\* ------------------------------------------------------------------------
\* C20 (SpecRead): get_field("transactions", limit=n, ...) returns at most n
\* transactions, the first n matches in file order.
\* ------------------------------------------------------------------------
C20_GetFieldAppliesLimit ==
    (/\ last.op = "get_field"
     /\ last.arg[1] = "transactions"
     /\ last.ret.msg = "{results}"
     /\ ~IsNone(last.arg[2].limit))
    => /\ Len(last.ret.args[2].items) <= last.arg[2].limit.n
       /\ last.ret.args[2].items
              = FirstN(SelectSeq(AllTransactions,
                                 LAMBDA t : Satisfies(t, last.arg[2].counter,
                                                      last.arg[2].amount,
                                                      last.arg[2].currency)),
                       last.arg[2].limit)


\* ------------------------------------------------------------------------
\* C21: when one transaction line is taken out of a ledger that validates
\* and has n >= 1 transactions (its last line being the footer, which counts
\* n), the footer being left as it was, validate() returns the error string
\* that names the footer's count n and the actual count n - 1
\* ------------------------------------------------------------------------
C21_RemovedLineIsCounted ==
    [][(/\ last'.op = "damage"
        /\ last'.arg[2] = 0
        /\ last'.arg[3] = LINESIZE + Len(os_linesep)
        /\ last'.arg[4] = <<>>
        /\ last'.arg[1] \in 1..TxLineCount(file)
        /\ StartsWith(LastLine, <<"0", "3">>)
        /\ Manager_validate(file).msg = ValidationSuccessful)
       => /\ Manager_validate(file').msg =
                  "Error: Footer total_counter {footer_total_counter} does not match transaction count {total_transactions}."
          /\ Manager_validate(file').args =
                  <<TxLineCount(file), TxLineCount(file) - 1>>]_vars

\* C21: the only transaction line of a ledger has just been taken out, and
\* the footer still counts one
C21_Witness ==
    /\ last.op = "damage"
    /\ last.arg[3] = LINESIZE + Len(os_linesep)
    /\ edits = 1
    /\ TxLineCount(file) = 0
    /\ Manager_validate(file).args = <<1, 0>>


\* ------------------------------------------------------------------------
\* C22: add_transaction on a bound Manager appends the transaction exactly
\* when its amount is a Decimal with no more than two fractional digits and
\* its currency has three characters (the amount, the control sum and the
\* counter staying within their fields); in every other case it returns an
\* error string and leaves the file as it was
\* ------------------------------------------------------------------------
C22_AppendsExactlyTheValid ==
    [][(last'.op = "add_transaction" /\ bound) =>
       LET t == last'.arg
           wellformed ==
               /\ IsDecimal(t.amount)
               /\ \A i \in Max(Len(t.amount.digs) + t.amount.exp + 3, 1)
                              ..Len(t.amount.digs) : t.amount.digs[i] = 0
               /\ ~IsNone(t.currency)
               /\ Len(t.currency.s) = 3
           fits ==
               /\ NumDigits(Cents(t.amount)) <= 12
               /\ \/ history = <<>>
                  \/ NumDigits(Cents(DecAdd(read_footer(file).control_sum,
                                            t.amount))) <= 12
               /\ TxLines = <<>> \/ LastCounter < MAX_TRANSACTIONS
           appended == file' # file /\ last'.ret.msg = AddedTransaction
       IN  /\ appended => wellformed
           /\ (wellformed /\ fits) => appended
           /\ ~appended => (file' = file /\ last'.ret.msg # "raise")]_vars


\* ------------------------------------------------------------------------
\* C23: transactions are append-only: no Manager operation lowers the number
\* of transaction records in the file, and none changes the tag or the
\* counter field of a transaction record that is there
\* ------------------------------------------------------------------------
C23_AppendOnly ==
    [][LET records(f) == SelectSeq(LinesFrom(f, 0),
                                   LAMBDA l : StartsWith(l, <<"0", "2">>))
       IN  /\ Len(records(file')) >= Len(records(file))
           /\ \A k \in 1..Len(records(file)) :
                  Slice(records(file')[k], 0, 8)
                      = Slice(records(file)[k], 0, 8)]_vars


\* ------------------------------------------------------------------------
\* C24: after a modify_field("transactions", batch) that reports success the
\* footer's total_counter is what it was and the footer's control_sum is the
\* sum of the amounts that the transaction lines now hold
\* ------------------------------------------------------------------------
C24_FooterFollowsEdits ==
    [][(/\ last'.op = "modify_field"
        /\ last'.arg[1] = "transactions"
        /\ last'.ret.msg
               = "Updated {field_name} in matching transactions: {new_value}")
       => /\ read_footer(file).type = "Footer"
          /\ read_footer(file').type = "Footer"
          /\ read_footer(file').total_counter = read_footer(file).total_counter
          /\ read_transactions(file').type = "list"
          /\ DecEq(read_footer(file').control_sum,
                   SumAmounts(read_transactions(file').items))]_vars


\* ------------------------------------------------------------------------
\* C25: when a batch given to change_transactions holds an item whose id is
\* not the counter stored at offset id * line width (an id of 0, a negative
\* id and an id past the end included), the call returns False without
\* raising, which modify_field reports as its failure string; the footer is
\* not rewritten, the lines named by the items after the first such item are
\* not written, and the fields written for the items before it hold the new
\* values
\* ------------------------------------------------------------------------
C25_MismatchAbortsTheBatch ==
    [][LET batch == valid_transactions(locked_transactions, last'.arg[2])
           line_size == LINESIZE + Len(os_linesep)
           line(f, id) == Slice(f, id * line_size, (id + 1) * line_size)
           found(t) ==
               /\ t.transaction_id.n >= 0
               /\ IntOfStr(Slice(line(file, t.transaction_id.n), 2, 8)) # None
               /\ IntOfBig(IntOfStr(Slice(line(file, t.transaction_id.n),
                                          2, 8))) = t.transaction_id.n
           bad == {j \in 1..Len(batch) : ~found(batch[j])}
           first == CHOOSE j \in bad : \A i \in bad : j <= i
       IN  (/\ last'.op = "modify_field"
            /\ last'.arg[1] = "transactions"
            /\ bound
            /\ file # <<>>
            /\ bad # {})
           => /\ last'.ret.msg = "Something went wrong, check the logs"
              /\ Len(file') = Len(file)
              /\ line(file', Len(file) \div line_size - 1)
                     = line(file, Len(file) \div line_size - 1)
              /\ \A j \in (first + 1)..Len(batch) :
                     (/\ found(batch[j])
                      /\ \A i \in 1..(first - 1) :
                             batch[i].transaction_id # batch[j].transaction_id)
                     => line(file', batch[j].transaction_id.n)
                            = line(file, batch[j].transaction_id.n)
              /\ \A i \in 1..(first - 1) :
                     /\ IsDecimal(batch[i].amount)
                        => Slice(line(file', batch[i].transaction_id.n), 8, 20)
                               = FormatInt(Cents(batch[i].amount), 12)
                     /\ ~IsNone(batch[i].currency)
                        => Slice(line(file', batch[i].transaction_id.n), 20, 23)
                               = RJust(batch[i].currency.s, 3)]_vars


\* ------------------------------------------------------------------------
\* C26: in a batch of edits that succeeds, a transaction edited in its amount
\* only keeps its currency bytes, a transaction edited in its currency only
\* keeps its amount bytes, a batch of currency edits leaves the footer's
\* control_sum field as it was, and the header and every transaction that
\* the batch does not name stay byte for byte as they were
\* ------------------------------------------------------------------------
C26_EditsStayInTheirFields ==
    [][LET batch == valid_transactions(locked_transactions, last'.arg[2])
           line_size == LINESIZE + Len(os_linesep)
           line(f, id) == Slice(f, id * line_size, (id + 1) * line_size)
           ids == {batch[i].transaction_id.n : i \in 1..Len(batch)}
           items(id) == {batch[i] : i \in {j \in 1..Len(batch) :
                                            batch[j].transaction_id.n = id}}
           footer == Len(file) \div line_size - 1
       IN  (/\ last'.op = "modify_field"
            /\ last'.arg[1] = "transactions"
            /\ last'.ret.msg
                   = "Updated {field_name} in matching transactions: {new_value}")
           => /\ \A id \in ids :
                     /\ (\A t \in items(id) : IsNone(t.currency))
                        => Slice(line(file', id), 20, 23)
                               = Slice(line(file, id), 20, 23)
                     /\ (\A t \in items(id) : IsNone(t.amount))
                        => Slice(line(file', id), 8, 20)
                               = Slice(line(file, id), 8, 20)
              /\ (\A i \in 1..Len(batch) : IsNone(batch[i].amount))
                 => Slice(line(file', footer), 8, 20)
                        = Slice(line(file, footer), 8, 20)
              /\ \A k \in 0..(footer - 1) :
                     k \notin ids => line(file', k) = line(file, k)]_vars


\* ------------------------------------------------------------------------
\* C27: change_header on a file that has a header changes no byte outside
\* the spans of the header fields that its argument supplies: the tag, the
\* other fields, the header's terminator and every transaction and footer
\* byte stay as they were; a span it writes holds the value right-justified
\* and padded with spaces to the width of the field, and it writes every
\* supplied span when the supplied values fit their fields
\* ------------------------------------------------------------------------
C27_HeaderEditStaysInItsSpans ==
    [][(/\ last'.op = "change_header"
        /\ StartsWith(ReadLine(file, 0), <<"0", "1">>)
        /\ Len(file) >= LINESIZE)
       => LET header == last'.arg
              span == [name |-> <<2, 30>>, surname |-> <<30, 60>>,
                       patronymic |-> <<60, 90>>, address |-> <<90, 120>>]
              supplied == {n \in DOMAIN span : ~IsNone(header[n])}
              justified(n) == RJust(header[n].s, span[n][2] - span[n][1])
          IN  /\ Len(file') = Len(file)
              /\ \A p \in 1..Len(file) :
                     (\A n \in supplied : p <= span[n][1] \/ p > span[n][2])
                     => file'[p] = file[p]
              /\ \A n \in supplied :
                     \/ Slice(file', span[n][1], span[n][2]) = justified(n)
                     \/ Slice(file', span[n][1], span[n][2])
                            = Slice(file, span[n][1], span[n][2])
              /\ (\A n \in supplied : Len(justified(n)) = span[n][2] - span[n][1])
                 => \A n \in supplied :
                        Slice(file', span[n][1], span[n][2]) = justified(n)]_vars

\* C27: change_header has just written the name and the address, and those
\* alone, into the header of a ledger that holds a transaction
C27_Witness ==
    /\ last.op = "change_header"
    /\ IsNone(last.arg.surname)
    /\ ~IsNone(last.arg.address)
    /\ TxLineCount(file) >= 1
    /\ Slice(file, 0, 30) = <<"0", "1">> \o RJust(<<"X">>, 28)
    /\ Slice(file, 30, 60) = RJust(<<"B">>, 30)
    /\ Slice(file, 90, 120) = RJust(<<"X">>, 30)


\* ------------------------------------------------------------------------
\* C28: an add_transaction that succeeds on a ledger holding at least one
\* transaction leaves every byte before the offset of the old footer as it
\* was, puts the new transaction line at that offset and the recomputed
\* footer (count + 1, control sum + amount) right after it, each with the
\* terminator found on the first line: the file is one line longer
\* ------------------------------------------------------------------------
C28_AppendReplacesTheFooter ==
    [][(/\ last'.op = "add_transaction"
        /\ last'.ret.msg = AddedTransaction
        /\ TxLineCount(file) >= 1)
       => LET terminator == Newlines(file).s
              line_size == LINESIZE + Len(terminator)
              old == Len(file) - line_size
              footer == read_footer(file)
              t == last'.arg
          IN  /\ SubSeq(file', 1, old) = SubSeq(file, 1, old)
              /\ Slice(file', old, old + line_size)
                     = TransactionLine(LastCounter + 1, Cents(t.amount),
                                       t.currency) \o terminator
              /\ Slice(file', old + line_size, old + 2 * line_size)
                     = FooterLine(footer.total_counter + 1,
                                  Cents(DecAdd(footer.control_sum, t.amount)))
                       \o terminator
              /\ Len(file') = Len(file) + line_size]_vars

\* C28: a second transaction has just been appended to a ledger whose lines
\* end in "\r\n"
C28_Witness ==
    /\ JustAdded
    /\ Len(history) >= 2
    /\ os_linesep = <<"\r", "\n">>
    /\ TxLineCount(file) = Len(history)


\* ------------------------------------------------------------------------
\* C29: on any file whose transaction lines can be read, damaged ones and
\* ones with a repeated counter included, and for any criteria and limit, a
\* limit of 0 included, get_transactions with its early exits returns what a
\* scan of every "02" line returns: the matching transactions in file order,
\* cut to the first limit of them
\* ------------------------------------------------------------------------
C29_EarlyExitIsAFullScan ==
    (/\ last.op = "get_transactions"
     /\ \A i \in 1..Len(AllTransactions) :
            AllTransactions[i].type = "Transaction")
    => /\ last.ret.msg = "{transactions}"
       /\ Len(last.ret.args[1])
              = Len(FirstN(SelectSeq(AllTransactions,
                                     LAMBDA t : Satisfies(t, last.arg[1],
                                                          last.arg[2],
                                                          last.arg[3])),
                           last.arg[4]))
       /\ \A i \in 1..Len(last.ret.args[1]) :
              last.ret.args[1][i]
                  = SelectSeq(AllTransactions,
                              LAMBDA t : Satisfies(t, last.arg[1], last.arg[2],
                                                   last.arg[3]))[i]


\* ------------------------------------------------------------------------
\* C30: validate_file reports the first violation from the top of the file.
\* Of the lines between the header and the footer the first one that has a
\* defect decides: the message names its 1-based index and the first of its
\* defects in the order tag, length, digits of the counter and amount span,
\* blanks of the reserved span.  When no such line has a defect and the
\* footer is well formed in tag, length and digits, a count that differs is
\* reported before a control sum that differs, and that before a reserved
\* span that is not blank.
\* ------------------------------------------------------------------------
C30_FirstViolationReported ==
    LET body == [i \in 1..(Len(Lines) - 1) |->
                    IF EndsWith(Lines[i + 1], os_linesep)
                    THEN SubSeq(Lines[i + 1], 1,
                                Len(Lines[i + 1]) - Len(os_linesep))
                    ELSE Lines[i + 1]]
        footers == {i \in 1..Len(body) : StartsWith(body[i], <<"0", "3">>)}
        footer == CHOOSE i \in footers : \A j \in footers : i <= j
        defect(l) ==
            IF ~StartsWith(l, <<"0", "2">>)
            THEN "Incorrect start id of transaction no. {total_transactions}"
            ELSE IF Len(l) # 120
            THEN "Incorrect length: {len(line)} of transaction no. {total_transactions}"
            ELSE IF \E p \in 3..20 : ~IsDigitChar(l[p])
            THEN "Error: Transaction no. {total_transactions} contains invalid numeric fields."
            ELSE IF \E p \in 24..120 : l[p] # " "
            THEN "Error: Transaction no. {total_transactions} contains non-space characters in reserved section."
            ELSE ""
        defective == {i \in 1..(footer - 1) : defect(body[i]) # ""}
        first == CHOOSE i \in defective : \A j \in defective : i <= j
        amounts == [i \in 1..(footer - 1) |->
                       [amount |-> DecOfField(Slice(body[i], 8, 20))]]
    IN  (/\ last.op = "validate"
         /\ Len(Lines) >= 2
         /\ Lines[1] = ReadLine(SeededLedger(0, os_linesep), 0)
         /\ \A i \in 2..Len(Lines) : EndsWith(Lines[i], os_linesep)
         /\ footers # {})
        => IF defective # {}
           THEN /\ last.ret.msg = defect(body[first])
                /\ last.ret.args[Len(last.ret.args)] = first
           ELSE (/\ Len(body[footer]) = 120
                 /\ \A p \in 3..20 : IsDigitChar(body[footer][p]))
                => last.ret.msg =
                       IF IntOfBig(IntOfStr(Slice(body[footer], 2, 8)))
                              # footer - 1
                       THEN "Error: Footer total_counter {footer_total_counter} does not match transaction count {total_transactions}."
                       ELSE IF ~DecEq(DecOfField(Slice(body[footer], 8, 20)),
                                      SumAmounts(amounts))
                       THEN "Error: Footer control_sum {footer_control_sum} does not match transaction total {control_sum}."
                       ELSE IF \E p \in 21..120 : body[footer][p] # " "
                       THEN "Error: Footer: '{footer}' reserved section contains non-space characters."
                       ELSE ValidationSuccessful

\* C30: validate has just named line 1, whose reserved span is not blank,
\* in a ledger whose line 2 has a wrong tag as well
C30_Witness ==
    /\ last.op = "validate"
    /\ last.ret.msg = "Error: Transaction no. {total_transactions} contains non-space characters in reserved section."
    /\ last.ret.args = <<1>>
    /\ LineAt(file, 2) # <<>>
    /\ ~StartsWith(LineAt(file, 2), <<"0", "2">>)
    /\ ~StartsWith(LineAt(file, 2), <<"0", "3">>)

\* ------------------------------------------------------------------------
\* C31 (SpecAppend): validate() on a ledger that holds only a header line,
\* the state right after add_header and before any add_transaction, returns
\* a status string and raises no exception.
\* ------------------------------------------------------------------------
C31_HeaderOnlyValidateReturns ==
    (/\ last.op = "validate"
     /\ bound
     /\ Len(Lines) = 1
     /\ StartsWith(Lines[1], <<"0", "1">>)
     /\ EndsWith(Lines[1], os_linesep))
    => last.ret.msg # "raise"

\* ------------------------------------------------------------------------
\* C32 (SpecHeader): read_footer raises no exception on any file the Manager
\* is bound to: it returns None when the file is empty or its last line is
\* not tagged "03" (a file whose only line has no terminator and a file
\* shorter than one record included), and the footer of the last line
\* otherwise.
\* ------------------------------------------------------------------------
C32_ReadFooterNeverRaises ==
    bound =>
        /\ ~IsRaise(read_footer(file))
        /\ IsNone(read_footer(file))
               <=> (file = <<>> \/ ~StartsWith(LastLine, <<"0", "3">>))

\* ------------------------------------------------------------------------
\* C33 (SpecAppend): add_transaction with a valid amount and currency on a
\* bound but empty file (no header line yet) returns a failure result,
\* writes nothing and lets no exception reach the caller.
\* ------------------------------------------------------------------------
C33_AppendToEmptyFileIsRefused ==
    [][(/\ bound
        /\ file = <<>>
        /\ last'.op = "add_transaction"
        /\ IsDecimal(last'.arg.amount)
        /\ last'.arg.amount.exp \in {-2, 0}
        /\ ~last'.arg.amount.neg
        /\ NumDigits(Cents(last'.arg.amount)) <= 12
        /\ ~IsNone(last'.arg.currency)
        /\ Len(last'.arg.currency.s) = 3)
       => (/\ last'.ret.msg # "raise"
           /\ last'.ret.msg # AddedTransaction
           /\ file' = file)]_vars

\* ------------------------------------------------------------------------
\* C34 (SpecRegistry): _is_transaction_locked(t) is true exactly when the
\* counter wildcard is locked or t.transaction_id is among the locked
\* counters, or t.amount is not None and the amount wildcard or t.amount is
\* locked, or t.currency is not None and the currency wildcard or t.currency
\* is locked; an edit whose amount (currency) is None is never locked by an
\* amount (currency) lock alone.
\* ------------------------------------------------------------------------
C34_LockedByAnyCriterion ==
    last.op = "_is_transaction_locked" =>
        LET t == last.arg
            locked == last.ret.args[1]
            entries(c) == locked_transactions[c].vals
            wildcard(c) == locked_transactions[c].all
            byCounter == \/ wildcard("counter")
                         \/ /\ ~IsNone(t.transaction_id)
                            /\ t.transaction_id \in entries("counter")
            byAmount == /\ ~IsNone(t.amount)
                        /\ \/ wildcard("amount")
                           \/ \E v \in entries("amount") : DecEq(v, t.amount)
            byCurrency == /\ ~IsNone(t.currency)
                          /\ \/ wildcard("currency")
                             \/ t.currency \in entries("currency")
        IN  /\ locked <=> (byCounter \/ byAmount \/ byCurrency)
            /\ (IsNone(t.amount) /\ ~byCounter /\ ~byCurrency) => ~locked
            /\ (IsNone(t.currency) /\ ~byCounter /\ ~byAmount) => ~locked

\* C34: an edit with no amount has been tested while the amount wildcard and
\* nothing else was locked, and found not locked
C34_Witness ==
    /\ last.op = "_is_transaction_locked"
    /\ IsNone(last.arg.amount)
    /\ ~IsNone(last.arg.transaction_id)
    /\ locked_transactions.amount.all
    /\ locked_transactions.amount.vals # {}
    /\ ~locked_transactions.counter.all
    /\ locked_transactions.counter.vals = {}
    /\ ~locked_transactions.currency.all
    /\ locked_transactions.currency.vals = {}
    /\ last.ret.args = <<FALSE>>

\* ------------------------------------------------------------------------
\* C35 (SpecRegistry): every lock_field and unlock_field call changes the
\* registry by its one entry at most, so that the registry holds exactly the
\* entries locked and not since unlocked: lock_field(name, v) adds entry v of
\* criterion name and nothing else (the wildcard when v is None);
\* unlock_field(name, v) removes that entry and nothing else when it is
\* locked, and returns an error and changes nothing when it is not; a name
\* that is no field returns an error and changes nothing; unlocking the
\* wildcard keeps the values locked one by one.
\* ------------------------------------------------------------------------
C35_RegistryHoldsWhatWasLocked ==
    [][last'.op \in {"lock_field", "unlock_field"} =>
       LET name == last'.arg[1]
           v == last'.arg[2]
           criteria == {"counter", "amount", "currency"}
           others == \A c \in criteria \ {name} :
                        locked_transactions'[c] = locked_transactions[c]
           old == locked_transactions[name]
           new == locked_transactions'[name]
           held == IF IsNone(v) THEN old.all ELSE LockKey(v) \in old.vals
           Added == IF IsNone(v)
                    THEN new.all /\ new.vals = old.vals
                    ELSE new.all = old.all
                         /\ new.vals = old.vals \cup {LockKey(v)}
           Removed == IF IsNone(v)
                      THEN ~new.all /\ new.vals = old.vals
                      ELSE new.all = old.all
                           /\ new.vals = old.vals \ {LockKey(v)}
       IN  IF name \in criteria
           THEN /\ others
                /\ locked_fields' = locked_fields
                /\ IF last'.op = "lock_field"
                   THEN Added
                        /\ last'.ret.msg = "Locked transactions where {field_name}={filter_value}"
                   ELSE IF held
                   THEN Removed
                        /\ last'.ret.msg = "Unlocked transactions where {field_name}={filter_value}"
                   ELSE new = old
                        /\ last'.ret.msg = "Error: Transactions where {field_name}={filter_value} were not locked."
           ELSE /\ locked_transactions' = locked_transactions
                /\ IF name \in DOMAIN HeaderFields_FIELD_SIZES
                   THEN locked_fields' =
                            IF last'.op = "lock_field"
                            THEN locked_fields \cup {name}
                            ELSE locked_fields \ {name}
                   ELSE /\ locked_fields' = locked_fields
                        /\ last'.ret.msg \in
                               {"Invalid field name for locking",
                                "Invalid field name for unlocking"}]_vars

\* C35: the counter wildcard has just been unlocked and counter 1, locked on
\* its own, is still locked
C35_Witness ==
    /\ last.op = "unlock_field"
    /\ last.arg[1] = "counter"
    /\ IsNone(last.arg[2])
    /\ last.ret.msg = "Unlocked transactions where {field_name}={filter_value}"
    /\ ~locked_transactions.counter.all
    /\ locked_transactions.counter.vals = {Int32(1)}

\* ------------------------------------------------------------------------
\* C37 (SpecAppend): add_transaction accepts every non-negative Decimal
\* amount with at most 2 fractional digits up to 9999999999.99: its size
\* check refuses an amount only when the cents value amount x 100 needs more
\* than 12 digits.  Stated for the first transaction of a ledger, where no
\* other limit (the counter, the control sum) can refuse it.
\* ------------------------------------------------------------------------
C37_SizeCheckCountsCents ==
    [][(/\ bound
        /\ file # <<>>
        /\ TxLines = <<>>
        /\ last'.op = "add_transaction"
        /\ IsDecimal(last'.arg.amount)
        /\ ~last'.arg.amount.neg
        /\ last'.arg.amount.exp \in {-2, -1, 0}
        /\ ~IsNone(last'.arg.currency)
        /\ Len(last'.arg.currency.s) = 3)
       => (last'.ret.msg = AddedTransaction
              <=> NumDigits(Cents(last'.arg.amount)) <= 12)]_vars

\* ------------------------------------------------------------------------
\* C39 (SpecHeader): change_header is all-or-nothing on a width error: when
\* a supplied field value is longer than the width of its field, no byte of
\* the file is written, also when other fields supplied in the same call
\* are within their widths.
\* ------------------------------------------------------------------------
C39_WidthErrorWritesNothing ==
    [][(/\ last'.op = "change_header"
        /\ \E field \in DOMAIN HeaderFields_FIELD_SIZES :
              /\ ~IsNone(last'.arg[field])
              /\ Len(last'.arg[field].s) > HeaderFields_FIELD_SIZES[field])
       => file' = file]_vars

\* ------------------------------------------------------------------------
\* C38 (SpecDamaged): whenever validate_file returns "File validation
\* successful.", the footer it checked is the last line of the file (no
\* record follows it), and its total_counter and control_sum are the number
\* and the amount sum of all the lines tagged "02" in the file, so that
\* read_footer and read_transactions agree with the validated values.
\* ------------------------------------------------------------------------
C38_SuccessCoversTheWholeFile ==
    (last.op = "validate" /\ last.ret.msg = ValidationSuccessful) =>
        LET footers == {i \in 1..Len(Lines) : StartsWith(Lines[i], <<"0", "3">>)}
            amounts == [i \in 1..Len(TxLines) |->
                           [amount |-> DecOfField(Slice(TxLines[i], 8, 20))]]
        IN  /\ footers = {Len(Lines)}
            /\ read_footer(file).type = "Footer"
            /\ read_footer(file).total_counter = Len(TxLines)
            /\ DecEq(read_footer(file).control_sum, SumAmounts(amounts))
            /\ Len(read_transactions(file).items) = Len(TxLines)

\* ------------------------------------------------------------------------
\* C36 (SpecCrash): when add_transaction or change_transactions is
\* interrupted between its writes, after the transaction line or the field
\* writes and before the footer write, validate_file on the file left behind
\* reports a count or a control sum that does not match, and not success.
\* ------------------------------------------------------------------------
C36_TornWriteIsReportedAsMismatch ==
    [][(/\ last.op \in {"add_transaction", "modify_field"}
        /\ last.ret.msg = "raise"
        /\ last.ret.args[1] = "KeyboardInterrupt"
        /\ last'.op = "validate")
       => last'.ret.msg \in
              {"Error: Footer total_counter {footer_total_counter} does not match transaction count {total_transactions}.",
               "Error: Footer control_sum {footer_control_sum} does not match transaction total {control_sum}."}]_vars

\* ------------------------------------------------------------------------
\* C40 (SpecRegistry): the Manager owns at most one open file handle at any
\* time: set_file with a new path closes the file opened before and then
\* opens the new one, set_file with the current path is a no-op, and neither
\* changes the lock registry.
\* ------------------------------------------------------------------------
C40_OneOpenHandle ==
    [][last'.op = "set_file" =>
       /\ locked_fields' = locked_fields
       /\ locked_transactions' = locked_transactions
       /\ IF file_handler = None
          THEN last'.ret.args = <<"open">>
          ELSE IF file_handler.s = last'.arg.s
          THEN file_handler' = file_handler /\ last'.ret.args = <<>>
          ELSE last'.ret.args = <<"close", "open">>]_vars

====
